---- MODULE Spec2Model ----
(***************************************************************************)
(* Rule evaluation, position simulation and trade reconstruction of the   *)
(* long-only backtester (src/core/backtester.py, src/core/validator.py,   *)
(* src/core/strategy_spec.py).                                            *)
(*                                                                         *)
(* Conventions.  Bar indices are 0-based as in the source; the table df   *)
(* is a sequence of rows (records keyed by column name) and Iloc(df, i)   *)
(* is row i.  An optional value (a float that may be NaN, an int that may *)
(* be None) is << >> when absent and <<v>> when present.                  *)
(***************************************************************************)
EXTENDS Integers, Sequences, FiniteSets, TLC

VARIABLES
    df,             \* the feature table handed to the core
    spec,           \* the StrategySpec object; its rule objects are mutable
    spec_in,        \* the specification as the caller constructed it
    pc,             \* which function of the core is executing
    i,              \* loop index of the executing function
    position,       \* local `position` of the executing function
    positions,      \* run_backtest: the positions array filled so far
    entry_ok,       \* local `entry_ok` of the current iteration
    exit_ok,        \* local `exit_ok` of the current iteration
    entry_reasons,  \* extract_trades: local `entry_reasons`
    exit_reasons,   \* extract_trades: local `exit_reasons`
    exit_evaluated, \* how many exit rules the current iteration evaluated
    current_trade,  \* extract_trades: the open trade, or None
    trades,         \* extract_trades: the ledger built so far
    call,           \* progress of the sequential-entry evaluation
    ev,             \* the single-rule evaluation harness: last call and result
    strategy_return, \* run_backtest: the strategy_return column
    equity_curve,   \* run_backtest: the equity_curve column
    returned,       \* what the calls completed so far returned, in order
    validation,     \* the validator harness: the call made and its result
    data,           \* parse_strategy_spec: the interchange dictionary
    parsed,         \* parse_strategy_spec: what the call returned or raised
    retry,          \* retry_with_backoff: the wrapper's locals and the calls made
    state,          \* the PipelineState of the session's checkpoint
    graph,          \* the compiled graph: next node, running call, nodes run
    index,          \* the row labels of the caller's table
    work,           \* the table a core function works on (its local `df`)
    threads         \* concurrent invocations: each thread's locals

vars == <<df, spec, spec_in, pc, i, position, positions, entry_ok, exit_ok,
          entry_reasons, exit_reasons, exit_evaluated, current_trade, trades,
          call, ev, strategy_return, equity_curve, returned, validation,
          data, parsed, retry, state, graph, index, work, threads>>

-----------------------------------------------------------------------------
(* Values *)

None == << >>
NaN == << >>
Some(x) == <<x>>
IsNa(v) == v = NaN
Val(v) == v[1]

Iloc(d, idx) == d[idx + 1]

(* The default row labels 0..n-1. *)
RangeIndex(n) == [k \in 1..n |-> k - 1]
Columns(d) == IF Len(d) = 0 THEN {} ELSE DOMAIN d[1]

MaCol(w) == "ma_" \o ToString(w)
RvCol(w) == "rv_" \o ToString(w)
MedCol(w) == "rv_" \o ToString(w) \o "_med_252"

CrossoverRule(fast, slow, direction, lookahead, duration) ==
    [type |-> "crossover", fast_ma |-> fast, slow_ma |-> slow,
     direction |-> direction,
     lookahead_days |-> lookahead, duration_days |-> duration]

VolFilterRule(window, relation, lookahead, duration) ==
    [type |-> "vol_filter", window |-> window, threshold |-> "median_1y",
     relation |-> relation,
     lookahead_days |-> lookahead, duration_days |-> duration]

-----------------------------------------------------------------------------
(* _evaluate_crossover *)

CrossoverMet(rule, row) ==
    LET fast == row[MaCol(rule.fast_ma)]
        slow == row[MaCol(rule.slow_ma)]
    IN  IF rule.direction = "above"
        THEN Val(fast) > Val(slow)
        ELSE Val(fast) < Val(slow)

CrossoverNa(rule, row) ==
    IsNa(row[MaCol(rule.fast_ma)]) \/ IsNa(row[MaCol(rule.slow_ma)])

(* Mutant: a missing value inside the duration window is skipped.          *)
RECURSIVE CrossoverDurationSkipsNa(_, _, _, _)
CrossoverDurationSkipsNa(rule, row_idx, d, offset) ==
    IF offset >= Val(rule.duration_days) THEN TRUE
    ELSE LET check_idx == row_idx - offset
         IN  IF check_idx < 0 THEN FALSE
             ELSE IF CrossoverNa(rule, Iloc(d, check_idx))
             THEN CrossoverDurationSkipsNa(rule, row_idx, d, offset + 1)
             ELSE IF ~CrossoverMet(rule, Iloc(d, check_idx)) THEN FALSE
             ELSE CrossoverDurationSkipsNa(rule, row_idx, d, offset + 1)

RECURSIVE CrossoverDuration(_, _, _, _)
CrossoverDuration(rule, row_idx, d, offset) ==
    IF offset >= Val(rule.duration_days) THEN TRUE
    ELSE LET check_idx == row_idx - offset
         IN  IF check_idx < 0 THEN FALSE
             ELSE IF CrossoverNa(rule, Iloc(d, check_idx)) THEN FALSE
             ELSE IF ~CrossoverMet(rule, Iloc(d, check_idx)) THEN FALSE
             ELSE CrossoverDuration(rule, row_idx, d, offset + 1)

RECURSIVE CrossoverLookahead(_, _, _, _)
CrossoverLookahead(rule, row_idx, d, offset) ==
    IF offset >= Val(rule.lookahead_days) + 1 THEN FALSE
    ELSE LET check_idx == row_idx + offset
         IN  IF check_idx >= Len(d)
             THEN CrossoverLookahead(rule, row_idx, d, offset + 1)
             ELSE IF CrossoverNa(rule, Iloc(d, check_idx))
             THEN CrossoverLookahead(rule, row_idx, d, offset + 1)
             ELSE IF CrossoverMet(rule, Iloc(d, check_idx)) THEN TRUE
             ELSE CrossoverLookahead(rule, row_idx, d, offset + 1)

(* Mutant: the comparison is not strict.                                   *)
CrossoverStandardNonStrict(rule, row_idx, d) ==
    LET row == Iloc(d, row_idx)
    IN  IF CrossoverNa(rule, row) THEN FALSE
        ELSE IF rule.direction = "above"
        THEN Val(row[MaCol(rule.fast_ma)]) >= Val(row[MaCol(rule.slow_ma)])
        ELSE Val(row[MaCol(rule.fast_ma)]) <= Val(row[MaCol(rule.slow_ma)])

CrossoverStandard(rule, row_idx, d) ==
    IF CrossoverNa(rule, Iloc(d, row_idx)) THEN FALSE
    ELSE CrossoverMet(rule, Iloc(d, row_idx))

(* Mutant: a rule whose column is absent passes.                           *)
EvaluateCrossoverAbsentPasses(rule, row_idx, d) ==
    IF MaCol(rule.fast_ma) \notin Columns(d) \/ MaCol(rule.slow_ma) \notin Columns(d)
    THEN TRUE
    ELSE IF rule.duration_days # None
    THEN IF row_idx < Val(rule.duration_days) - 1 THEN FALSE
         ELSE CrossoverDuration(rule, row_idx, d, 0)
    ELSE IF rule.lookahead_days # None
    THEN CrossoverLookahead(rule, row_idx, d, 0)
    ELSE CrossoverStandard(rule, row_idx, d)

EvaluateCrossover(rule, row_idx, d) ==
    IF MaCol(rule.fast_ma) \notin Columns(d) \/ MaCol(rule.slow_ma) \notin Columns(d)
    THEN FALSE
    ELSE IF rule.duration_days # None
    THEN IF row_idx < Val(rule.duration_days) - 1 THEN FALSE
         ELSE CrossoverDuration(rule, row_idx, d, 0)
    ELSE IF rule.lookahead_days # None
    THEN CrossoverLookahead(rule, row_idx, d, 0)
    ELSE CrossoverStandard(rule, row_idx, d)

-----------------------------------------------------------------------------
(* _evaluate_vol_filter *)

VolFilterMet(rule, row) ==
    LET rv == row[RvCol(rule.window)]
        med == row[MedCol(rule.window)]
    IN  IF rule.relation = "below"
        THEN Val(rv) < Val(med)
        ELSE Val(rv) > Val(med)

VolFilterNa(rule, row) ==
    IsNa(row[RvCol(rule.window)]) \/ IsNa(row[MedCol(rule.window)])

RECURSIVE VolFilterDuration(_, _, _, _)
VolFilterDuration(rule, row_idx, d, offset) ==
    IF offset >= Val(rule.duration_days) THEN TRUE
    ELSE LET check_idx == row_idx - offset
         IN  IF check_idx < 0 THEN FALSE
             ELSE IF VolFilterNa(rule, Iloc(d, check_idx)) THEN FALSE
             ELSE IF ~VolFilterMet(rule, Iloc(d, check_idx)) THEN FALSE
             ELSE VolFilterDuration(rule, row_idx, d, offset + 1)

(* Mutant: a missing value inside the lookahead window fails the rule.     *)
RECURSIVE VolFilterLookaheadFailsOnNa(_, _, _, _)
VolFilterLookaheadFailsOnNa(rule, row_idx, d, offset) ==
    IF offset >= Val(rule.lookahead_days) + 1 THEN FALSE
    ELSE LET check_idx == row_idx + offset
         IN  IF check_idx >= Len(d)
             THEN VolFilterLookaheadFailsOnNa(rule, row_idx, d, offset + 1)
             ELSE IF VolFilterNa(rule, Iloc(d, check_idx)) THEN FALSE
             ELSE IF VolFilterMet(rule, Iloc(d, check_idx)) THEN TRUE
             ELSE VolFilterLookaheadFailsOnNa(rule, row_idx, d, offset + 1)

RECURSIVE VolFilterLookahead(_, _, _, _)
VolFilterLookahead(rule, row_idx, d, offset) ==
    IF offset >= Val(rule.lookahead_days) + 1 THEN FALSE
    ELSE LET check_idx == row_idx + offset
         IN  IF check_idx >= Len(d)
             THEN VolFilterLookahead(rule, row_idx, d, offset + 1)
             ELSE IF VolFilterNa(rule, Iloc(d, check_idx))
             THEN VolFilterLookahead(rule, row_idx, d, offset + 1)
             ELSE IF VolFilterMet(rule, Iloc(d, check_idx)) THEN TRUE
             ELSE VolFilterLookahead(rule, row_idx, d, offset + 1)

VolFilterStandard(rule, row_idx, d) ==
    IF VolFilterNa(rule, Iloc(d, row_idx)) THEN FALSE
    ELSE VolFilterMet(rule, Iloc(d, row_idx))

EvaluateVolFilter(rule, row_idx, d) ==
    IF RvCol(rule.window) \notin Columns(d) \/ MedCol(rule.window) \notin Columns(d)
    THEN FALSE
    ELSE IF rule.duration_days # None
    THEN IF row_idx < Val(rule.duration_days) - 1 THEN FALSE
         ELSE VolFilterDuration(rule, row_idx, d, 0)
    ELSE IF rule.lookahead_days # None
    THEN VolFilterLookahead(rule, row_idx, d, 0)
    ELSE VolFilterStandard(rule, row_idx, d)

(* The isinstance dispatch every caller performs on a rule. *)
EvaluateRule(rule, row_idx, d) ==
    IF rule.type = "crossover" THEN EvaluateCrossover(rule, row_idx, d)
    ELSE IF rule.type = "vol_filter" THEN EvaluateVolFilter(rule, row_idx, d)
    ELSE FALSE

-----------------------------------------------------------------------------
(* Reason formatting: _to_scalar, _format_crossover_reason,                *)
(* _format_vol_filter_reason.  Indicator values of the model are whole     *)
(* numbers, so "{:.2f}" prints the digits followed by ".00" and "{:.2%}"   *)
(* prints a hundred times the value followed by ".00%"; NaN prints "nan".  *)

Fmt2f(v) == IF IsNa(v) THEN "nan" ELSE ToString(Val(v)) \o ".00"
Fmt2pct(v) == IF IsNa(v) THEN "nan%" ELSE ToString(Val(v) * 100) \o ".00%"

FormatCrossoverReason(rule, row, is_entry) ==
    LET fast_val == row[MaCol(rule.fast_ma)]
        slow_val == row[MaCol(rule.slow_ma)]
        action == IF is_entry THEN "Entry" ELSE "Exit"
        direction == IF rule.direction = "above" THEN "above" ELSE "below"
    IN  action \o ": " \o ToString(rule.fast_ma) \o "-day MA (" \o Fmt2f(fast_val)
            \o ") crossed " \o direction \o " " \o ToString(rule.slow_ma)
            \o "-day MA (" \o Fmt2f(slow_val) \o ")"

FormatVolFilterReason(rule, row, is_entry) ==
    LET rv_val == row[RvCol(rule.window)]
        med_val == row[MedCol(rule.window)]
        action == IF is_entry THEN "Entry" ELSE "Exit"
        relation == IF rule.relation = "below" THEN "below" ELSE "above"
    IN  action \o ": " \o ToString(rule.window) \o "-day RV (" \o Fmt2pct(rv_val)
            \o ") " \o relation \o " 1Y median (" \o Fmt2pct(med_val) \o ")"

(* The isinstance dispatch around the two formatters; a rule of neither    *)
(* kind contributes no reason.                                             *)
FormatReason(rule, row, is_entry) ==
    IF rule.type = "crossover" THEN <<FormatCrossoverReason(rule, row, is_entry)>>
    ELSE IF rule.type = "vol_filter" THEN <<FormatVolFilterReason(rule, row, is_entry)>>
    ELSE << >>

RECURSIVE Join(_)
Join(reasons) ==
    IF Len(reasons) = 0 THEN ""
    ELSE IF Len(reasons) = 1 THEN reasons[1]
    ELSE reasons[1] \o " | " \o Join(Tail(reasons))

-----------------------------------------------------------------------------
(* Entry and exit composition *)

(* Mutant: the loop returns after its first rule.                          *)
EvaluateRulesFirstOnly(rules, row_idx, d) ==
    IF Len(rules) = 0 THEN TRUE ELSE EvaluateRule(Head(rules), row_idx, d)

(* _evaluate_rules: AND over the rules, returning at the first false one.  *)
RECURSIVE EvaluateRules(_, _, _)
EvaluateRules(rules, row_idx, d) ==
    IF Len(rules) = 0 THEN TRUE
    ELSE IF ~EvaluateRule(Head(rules), row_idx, d) THEN FALSE
    ELSE EvaluateRules(Tail(rules), row_idx, d)

(* _get_triggered_rules: every rule is evaluated; the reasons of those     *)
(* that passed are collected in order.                                     *)
RECURSIVE TriggeredReasons(_, _, _, _)
TriggeredReasons(rules, row_idx, d, is_entry) ==
    IF Len(rules) = 0 THEN << >>
    ELSE (IF EvaluateRule(Head(rules), row_idx, d)
          THEN FormatReason(Head(rules), Iloc(d, row_idx), is_entry)
          ELSE << >>)
         \o TriggeredReasons(Tail(rules), row_idx, d, is_entry)

(* Mutant: all_passed is overwritten by each rule, so the last one decides. *)
AllPassedLastRule(rules, row_idx, d) ==
    IF Len(rules) = 0 THEN TRUE ELSE EvaluateRule(rules[Len(rules)], row_idx, d)

RECURSIVE AllPassed(_, _, _)
AllPassed(rules, row_idx, d) ==
    IF Len(rules) = 0 THEN TRUE
    ELSE LET passed == EvaluateRule(Head(rules), row_idx, d)
             rest == AllPassed(Tail(rules), row_idx, d)
         IN  IF ~passed THEN FALSE ELSE rest

GetTriggeredRules(rules, row_idx, d, is_entry) ==
    [all_passed |-> AllPassed(rules, row_idx, d),
     reasons |-> TriggeredReasons(rules, row_idx, d, is_entry)]

(* validator._evaluate_entry_rules, standard branch (lines 82-93).         *)
RECURSIVE ValidatorEntryRules(_, _, _)
ValidatorEntryRules(rules, row_idx, d) ==
    IF Len(rules) = 0 THEN TRUE
    ELSE IF ~EvaluateRule(Head(rules), row_idx, d) THEN FALSE
    ELSE ValidatorEntryRules(Tail(rules), row_idx, d)

(* run_backtest lines 321-331: the exit loop stops at the first exit rule, *)
(* in declared order, that evaluates true.  `evaluated` counts the rules   *)
(* the loop evaluated.                                                     *)
RECURSIVE BacktestExitLoop(_, _, _, _)
BacktestExitLoop(rules, row_idx, d, k) ==
    IF k > Len(rules) THEN [exit_ok |-> FALSE, evaluated |-> Len(rules)]
    ELSE IF EvaluateRule(rules[k], row_idx, d)
    THEN [exit_ok |-> TRUE, evaluated |-> k]
    ELSE BacktestExitLoop(rules, row_idx, d, k + 1)

(* Mutant: the loop does not break, and renders every true exit rule.      *)
RECURSIVE TradesExitLoopNoBreak(_, _, _, _)
TradesExitLoopNoBreak(rules, row_idx, d, k) ==
    IF k > Len(rules)
    THEN [exit_ok |-> FALSE, exit_reasons |-> << >>, evaluated |-> Len(rules)]
    ELSE LET rest == TradesExitLoopNoBreak(rules, row_idx, d, k + 1)
         IN  IF EvaluateRule(rules[k], row_idx, d)
             THEN [exit_ok |-> TRUE,
                   exit_reasons |-> FormatReason(rules[k], Iloc(d, row_idx), FALSE)
                                        \o rest.exit_reasons,
                   evaluated |-> Len(rules)]
             ELSE rest

(* extract_trades lines 410-423: the same loop, which also renders the     *)
(* reason of the rule it stops at.                                         *)
RECURSIVE TradesExitLoop(_, _, _, _)
TradesExitLoop(rules, row_idx, d, k) ==
    IF k > Len(rules)
    THEN [exit_ok |-> FALSE, exit_reasons |-> << >>, evaluated |-> Len(rules)]
    ELSE IF EvaluateRule(rules[k], row_idx, d)
    THEN [exit_ok |-> TRUE,
          exit_reasons |-> FormatReason(rules[k], Iloc(d, row_idx), FALSE),
          evaluated |-> k]
    ELSE TradesExitLoop(rules, row_idx, d, k + 1)

-----------------------------------------------------------------------------
(* Dates, prices and trades *)

Pad2(n) == IF n < 10 THEN "0" \o ToString(n) ELSE ToString(n)

(* date_val.strftime('%Y-%m-%d') for a four-digit year. *)
Strftime(dt) == ToString(dt.year) \o "-" \o Pad2(dt.month) \o "-" \o Pad2(dt.day)

(* extract_trades lines 363-370: the date string of bar idx. *)
DateStr(d, idx) ==
    IF "date" \in Columns(d) THEN Strftime(Iloc(d, idx).date) ELSE ToString(idx)

(* extract_trades lines 447-454: the date string of the synthetic close. *)
EndDateStr(d) ==
    IF "date" \in Columns(d) THEN Strftime(Iloc(d, Len(d) - 1).date) ELSE "End"

ClosePrice(d, idx) == Iloc(d, idx).close

(* Mutant: entry and exit price change places.                            *)
PnlPctInverted(entry_price, exit_price) ==
    [num |-> (entry_price - exit_price) * 100, den |-> exit_price]

(* (exit / entry - 1) * 100, kept exact as the fraction num / den. *)
PnlPct(entry_price, exit_price) ==
    [num |-> (exit_price - entry_price) * 100, den |-> entry_price]

EntryReasonText(reasons) ==
    IF Len(reasons) > 0 THEN Join(reasons) ELSE "All entry rules satisfied"

ExitReasonText(reasons) ==
    IF Len(reasons) > 0 THEN Join(reasons) ELSE "Exit rule triggered"

Trade(entry_date, entry_price, entry_reason) ==
    [entry_date |-> entry_date, entry_price |-> entry_price,
     entry_reason |-> entry_reason,
     exit_date |-> None, exit_price |-> None, exit_reason |-> None,
     pnl_pct |-> None]

CloseTrade(trade, exit_date, exit_price, exit_reason) ==
    [trade EXCEPT !.exit_date = Some(exit_date),
                  !.exit_price = Some(exit_price),
                  !.exit_reason = Some(exit_reason),
                  !.pnl_pct = Some(PnlPct(trade.entry_price, exit_price))]

-----------------------------------------------------------------------------
(* Sequential entry.  _evaluate_sequential_entry calls                     *)
(* _evaluate_rule_at_index once per probe; each call first overwrites the  *)
(* rule's lookahead_days and duration_days with None, evaluates, and then  *)
(* writes the saved values back.  `call` records where the caller stands:  *)
(*   stage  "idle" | "call" | "stripped" | "entry_done"                    *)
(*   phase  "seq" (inside _evaluate_sequential_entry) or                   *)
(*          "reasons" (extract_trades re-scanning for the entry reasons)   *)
(*   k, offset   the rule (1-based) and the offset being probed            *)
(*   lookahead   the caller's local `lookahead`                            *)
(*   original_lookahead, original_duration   the callee's saved fields     *)

Idle ==
    [stage |-> "idle", phase |-> "none", k |-> 0, offset |-> 0,
     lookahead |-> None,
     original_lookahead |-> None, original_duration |-> None]

EntryDone == [Idle EXCEPT !.stage = "entry_done"]

Probe(phase, k, offset, lookahead) ==
    [Idle EXCEPT !.stage = "call", !.phase = phase, !.k = k,
                 !.offset = offset, !.lookahead = lookahead]

(* What the caller does next: probe a rule, or finish with a verdict.      *)
Verdict(b) == [kind |-> "return", value |-> b, call |-> Idle]
Next_Probe(c) == [kind |-> "probe", value |-> FALSE, call |-> c]

(* _evaluate_sequential_entry lines 278-297 on reaching rule k.            *)
SeqEnterRule(rules, row_idx, n, k) ==
    IF k > Len(rules) THEN Verdict(TRUE)
    ELSE IF rules[k].lookahead_days = None
    THEN Next_Probe(Probe("seq", k, 0, None))
    ELSE IF Val(rules[k].lookahead_days) + 1 <= 0 THEN Verdict(FALSE)
    ELSE IF row_idx >= n THEN Verdict(FALSE)
    ELSE Next_Probe(Probe("seq", k, 0, rules[k].lookahead_days))

(* Mutant: a lagging rule is given up after the first bar of its window.   *)
SeqAfterProbeFirstBarOnly(rules, row_idx, n, c, result) ==
    IF ~result THEN Verdict(FALSE)
    ELSE SeqEnterRule(rules, row_idx, n, c.k + 1)

(* _evaluate_sequential_entry after the probe of rule c.k returned result. *)
SeqAfterProbe(rules, row_idx, n, c, result) ==
    IF c.k = 1
    THEN IF ~result THEN Verdict(FALSE) ELSE SeqEnterRule(rules, row_idx, n, 2)
    ELSE IF c.lookahead = None
    THEN IF ~result THEN Verdict(FALSE)
         ELSE SeqEnterRule(rules, row_idx, n, c.k + 1)
    ELSE IF result THEN SeqEnterRule(rules, row_idx, n, c.k + 1)
    ELSE IF c.offset + 1 >= Val(c.lookahead) + 1 THEN Verdict(FALSE)
    ELSE IF row_idx + c.offset + 1 >= n THEN Verdict(FALSE)
    ELSE Next_Probe(Probe("seq", c.k, c.offset + 1, c.lookahead))

(* extract_trades lines 388-406: the scan for the entry reasons, standing  *)
(* at rule k and offset; `lookahead` is the local of line 390.             *)
RECURSIVE ReasonScan(_, _, _, _, _, _, _)
ReasonScan(rules, row_idx, d, k, offset, lookahead, reasons) ==
    IF k > Len(rules) THEN [kind |-> "return", reasons |-> reasons, call |-> Idle]
    ELSE IF offset >= lookahead + 1
    THEN LET fallback == IF rules[k].lookahead_days = None
                         THEN FormatReason(rules[k], Iloc(d, row_idx), TRUE)
                         ELSE << >>
             nxt == IF k + 1 > Len(rules) \/ rules[k + 1].lookahead_days = None
                    THEN 0 ELSE Val(rules[k + 1].lookahead_days)
         IN  ReasonScan(rules, row_idx, d, k + 1, 0, nxt, reasons \o fallback)
    ELSE IF row_idx + offset < Len(d)
    THEN [kind |-> "probe", reasons |-> reasons,
          call |-> Probe("reasons", k, offset, Some(lookahead))]
    ELSE ReasonScan(rules, row_idx, d, k, offset + 1, lookahead, reasons)

(* extract_trades lines 379-388: the first rule's reason, then the scan.   *)
ReasonStart(rules, row_idx, d) ==
    LET first == FormatReason(rules[1], Iloc(d, row_idx), TRUE)
        nxt == IF 2 > Len(rules) \/ rules[2].lookahead_days = None
               THEN 0 ELSE Val(rules[2].lookahead_days)
    IN  ReasonScan(rules, row_idx, d, 2, 0, nxt, first)

(* Mutant: the lagging rule's reason is rendered from the anchor bar.      *)
ReasonAfterProbeAnchorRow(rules, row_idx, d, c, result, reasons) ==
    IF result
    THEN LET nxt == IF c.k + 1 > Len(rules) \/ rules[c.k + 1].lookahead_days = None
                    THEN 0 ELSE Val(rules[c.k + 1].lookahead_days)
         IN  ReasonScan(rules, row_idx, d, c.k + 1, 0, nxt,
                        reasons \o FormatReason(rules[c.k], Iloc(d, row_idx), TRUE))
    ELSE ReasonScan(rules, row_idx, d, c.k, c.offset + 1, Val(c.lookahead), reasons)

(* extract_trades lines 393-400 after the probe of rule c.k returned.      *)
ReasonAfterProbe(rules, row_idx, d, c, result, reasons) ==
    IF result
    THEN LET nxt == IF c.k + 1 > Len(rules) \/ rules[c.k + 1].lookahead_days = None
                    THEN 0 ELSE Val(rules[c.k + 1].lookahead_days)
         IN  ReasonScan(rules, row_idx, d, c.k + 1, 0, nxt,
                        reasons \o FormatReason(rules[c.k], Iloc(d, row_idx + c.offset), TRUE))
    ELSE ReasonScan(rules, row_idx, d, c.k, c.offset + 1, Val(c.lookahead), reasons)

-----------------------------------------------------------------------------
(* Returns.  A float of the return columns is kept exact as the fraction   *)
(* num / den in lowest terms with den > 0.                                 *)

Abs(x) == IF x < 0 THEN -x ELSE x

RECURSIVE Gcd(_, _)
Gcd(a, b) == IF b = 0 THEN a ELSE Gcd(b, a % b)

Rat(num, den) ==
    LET g == Gcd(Abs(num), Abs(den))
        sg == IF den < 0 THEN -1 ELSE 1
    IN  [num |-> sg * (num \div g), den |-> sg * (den \div g)]

(* data.load_price_data line 38: close.pct_change().fillna(0.0) *)
PctChange(closes, idx) ==
    IF idx = 0 THEN Rat(0, 1)
    ELSE Rat(closes[idx + 1] - closes[idx], closes[idx])

(* Mutant: the position is not shifted.                                   *)
UnshiftedPosition(pos, t) == pos[t]

(* run_backtest line 343: position.shift(1).fillna(0.0) * return *)
ShiftedPosition(pos, t) == IF t = 1 THEN 0 ELSE pos[t - 1]

StrategyReturn(pos, d) ==
    [t \in 1..Len(d) |->
        Rat(ShiftedPosition(pos, t) * d[t].return.num, d[t].return.den)]

(* run_backtest line 344: (1.0 + strategy_return).cumprod() *)
RECURSIVE CumProd(_, _)
CumProd(sr, t) ==
    IF t = 0 THEN Rat(1, 1)
    ELSE LET before == CumProd(sr, t - 1)
         IN  Rat(before.num * (sr[t].den + sr[t].num), before.den * sr[t].den)

EquityCurve(sr) == [t \in 1..Len(sr) |-> CumProd(sr, t)]

(* Mutant: the function works on the caller's own table.                   *)
DfSame(d) == [shared |-> TRUE, index |-> RangeIndex(Len(d)), rows |-> d]

(* df.copy().reset_index(drop=True): a table of the function's own with    *)
(* the same rows and the labels 0..n-1.                                    *)
DfCopy(d) == [shared |-> FALSE, index |-> RangeIndex(Len(d)), rows |-> d]

(* df["position"] = ..., df["strategy_return"] = ..., df["equity_curve"]   *)
(* = ...: the three columns written to the working table.                  *)
WithResults(w, pos, sr, eq) ==
    [w EXCEPT !.rows = [k \in DOMAIN w.rows |->
        w.rows[k] @@ ("position" :> pos[k]) @@ ("strategy_return" :> sr[k])
                  @@ ("equity_curve" :> eq[k])]]

(* What the caller's table holds once the function has written to w.       *)
CallerRows(w, d) == IF w.shared THEN w.rows ELSE d

CallerIndex(w, labels) == IF w.shared THEN w.index ELSE labels

(* What a call hands back to its caller. *)
BacktestResult(pos, sr, eq) ==
    [fn |-> "run_backtest", position |-> pos, strategy_return |-> sr,
     equity_curve |-> eq, trades |-> << >>]

TradesResult(ledger) ==
    [fn |-> "extract_trades", position |-> << >>, strategy_return |-> << >>,
     equity_curve |-> << >>, trades |-> ledger]

-----------------------------------------------------------------------------
(* Inputs: specifications and feature tables *)

NBars == 3
MaxLookahead == 3
MaxDuration == 2

(* <<lookahead_days, duration_days>> of a rule: neither, or one of them.   *)
Modifiers ==
    {<<None, None>>}
        \cup {<<Some(l), None>> : l \in 0..MaxLookahead}
        \cup {<<None, Some(n)>> : n \in 1..MaxDuration}

Unmodified == <<None, None>>

(* A rule may also declare both modifiers.                                 *)
BothModifiers == {<<Some(l), Some(n)>> : l \in 0..MaxLookahead, n \in 1..MaxDuration}

Cross(direction, m) == CrossoverRule(10, 50, direction, m[1], m[2])
Vol(relation, m) == VolFilterRule(20, relation, m[1], m[2])

StrategySpec(entry_rules, exit_rules, entry_sequential) ==
    [ticker |-> "SPY",
     start_date |-> [year |-> 2024, month |-> 1, day |-> 2],
     end_date |-> [year |-> 2024, month |-> 12, day |-> 31],
     entry_rules |-> entry_rules, exit_rules |-> exit_rules,
     metrics |-> <<"cagr", "max_drawdown", "sharpe">>,
     entry_sequential |-> entry_sequential]

SingleEntries == {<<Cross("above", m)>> : m \in Modifiers}
LaggingEntries == {<<Cross("above", Unmodified), Vol("below", m)>> : m \in Modifiers}

ExitLists ==
    {<<Cross("below", Unmodified)>>,
     <<Cross("below", Unmodified), Vol("above", Unmodified)>>,
     <<Vol("above", Unmodified), Cross("below", Unmodified)>>}

Strategies ==
    {StrategySpec(en, <<Cross("below", Unmodified)>>, sq) :
         en \in SingleEntries, sq \in BOOLEAN}
      \cup {StrategySpec(en, ex, sq) :
         en \in LaggingEntries, ex \in ExitLists, sq \in BOOLEAN}

(* Every rule of the model's universe, alone. *)
Rules ==
    {Cross(dr, m) : dr \in {"above", "below"}, m \in Modifiers \cup BothModifiers}
      \cup {Vol(rl, m) : rl \in {"below", "above"}, m \in Modifiers \cup BothModifiers}

(* data._required_ma_windows, data._required_vol_windows *)
RequiredMaWindows(s) ==
    UNION {{s.entry_rules[k].fast_ma, s.entry_rules[k].slow_ma} :
              k \in {j \in DOMAIN s.entry_rules : s.entry_rules[j].type = "crossover"}}
      \cup UNION {{s.exit_rules[k].fast_ma, s.exit_rules[k].slow_ma} :
              k \in {j \in DOMAIN s.exit_rules : s.exit_rules[j].type = "crossover"}}

RequiredVolWindows(s) ==
    {s.entry_rules[k].window :
         k \in {j \in DOMAIN s.entry_rules : s.entry_rules[j].type = "vol_filter"}}
      \cup {s.exit_rules[k].window :
         k \in {j \in DOMAIN s.exit_rules : s.exit_rules[j].type = "vol_filter"}}

(* What a bar of the table may carry: << <<fast, slow>>, <<rv, median>> >>. *)
BarShapes ==
    {<< <<Some(2), Some(1)>>, <<Some(1), Some(2)>> >>,
     << <<Some(2), Some(1)>>, <<Some(2), Some(1)>> >>,
     << <<Some(1), Some(2)>>, <<Some(1), Some(3)>> >>,
     << <<Some(1), Some(2)>>, <<Some(2), Some(1)>> >>,
     << <<NaN, Some(1)>>, <<Some(1), Some(2)>> >>}

(* The pairs of compared values a single rule is evaluated on: greater,   *)
(* smaller, equal, and either side missing.                                *)
Pairs ==
    {<<Some(2), Some(1)>>, <<Some(1), Some(2)>>, <<Some(1), Some(1)>>,
     <<NaN, Some(1)>>, <<Some(1), NaN>>}

PairShapes == {<<pr, pr>> : pr \in Pairs}

(* The closes of the price history, bar 0 first. *)
PriceHistory(n) == [idx \in 1..n |-> 100 + 10 * (idx - 1) - 25 * ((idx - 1) % 2)]

BaseRow(idx) ==
    [date |-> [year |-> 2024, month |-> 1, day |-> 2 + idx],
     close |-> PriceHistory(idx + 1)[idx + 1],
     return |-> PctChange(PriceHistory(idx + 1), idx)]

MaPart(s, shape) ==
    IF RequiredMaWindows(s) = {} THEN << >>
    ELSE (MaCol(10) :> shape[1]) @@ (MaCol(50) :> shape[2])

RvPart(s, shape) ==
    IF RequiredVolWindows(s) = {} THEN << >>
    ELSE (RvCol(20) :> shape[1]) @@ (MedCol(20) :> shape[2])

(* The shapes that differ on a column the table of s has.                  *)
ShapesFor(s, shapes) ==
    {<<IF RequiredMaWindows(s) = {} THEN <<NaN, NaN>> ELSE sh[1],
       IF RequiredVolWindows(s) = {} THEN <<NaN, NaN>> ELSE sh[2]>> : sh \in shapes}

(* Every table of n bars whose indicator columns are those add_features    *)
(* builds for s.                                                           *)
Tables(s, n, shapes) ==
    {[idx \in 1..n |-> BaseRow(idx - 1) @@ MaPart(s, f[idx][1]) @@ RvPart(s, f[idx][2])] :
        f \in [1..n -> ShapesFor(s, shapes)]}

-----
(* State machine: run_backtest, then extract_trades, on the same inputs    *)

NoValidation == [fn |-> "none", table |-> "none", result |-> << >>]

NoEval == [fn |-> "none", k |-> 0, row_idx |-> 0, result |-> FALSE, reasons |-> << >>]

NoParse == [fn |-> "none", raised |-> "none", message |-> "", result |-> << >>]

NoRetry == [decorator |-> "none"]

NoThreads == << >>

NoGraph ==
    [next |-> "none", call |-> "none", executed |-> << >>, completed |-> << >>,
     lineage |-> << >>,
     resuming |-> FALSE,
     resumes |-> 0, confirmed |-> FALSE, raised |-> "none",
     last |-> "none", invoked |-> FALSE, saved |-> << >>]

(* The harnesses and the pipeline are idle while the core runs.            *)
Outside ==
    /\ data = None
    /\ parsed = NoParse
    /\ threads = NoThreads
    /\ retry = NoRetry
    /\ state = None
    /\ graph = NoGraph

Locals ==
    /\ i = 0
    /\ position = 0
    /\ positions = << >>
    /\ entry_ok = FALSE
    /\ exit_ok = FALSE
    /\ entry_reasons = << >>
    /\ exit_reasons = << >>
    /\ exit_evaluated = 0
    /\ current_trade = None
    /\ trades = << >>
    /\ call = Idle
    /\ ev = NoEval
    /\ strategy_return = << >>
    /\ equity_curve = << >>
    /\ returned = << >>
    /\ validation = NoValidation

Init ==
    /\ \E s \in Strategies :
         /\ spec = s
         /\ spec_in = s
         /\ df \in Tables(s, NBars, BarShapes)
    /\ pc = "run_backtest"
    /\ Locals
    /\ Outside
    /\ index = RangeIndex(Len(df))
    /\ work = DfCopy(df)

InLoop == pc \in {"run_backtest", "extract_trades"} /\ i < Len(df)

(* The entry condition of the iteration is available: standard entry is    *)
(* computed in the step itself, sequential entry has been evaluated.       *)
EntryReady ==
    IF spec.entry_sequential THEN call.stage = "entry_done" ELSE call.stage = "idle"

(* _evaluate_sequential_entry lines 267-274, up to its first probe.        *)
SeqEntryBegin ==
    /\ InLoop
    /\ spec.entry_sequential
    /\ call.stage = "idle"
    /\ IF Len(spec.entry_rules) = 0
       THEN /\ entry_ok' = FALSE
            /\ call' = EntryDone
            /\ entry_reasons' = IF pc = "extract_trades" THEN << >> ELSE entry_reasons
       ELSE /\ call' = Probe("seq", 1, 0, None)
            /\ UNCHANGED <<entry_ok, entry_reasons>>
    /\ UNCHANGED <<threads, data, parsed, retry, state, graph, index, work,
                   strategy_return, equity_curve, returned, validation,
                   df, spec, spec_in, pc, i, position, positions, exit_ok,
                   exit_reasons, exit_evaluated, current_trade, trades, ev>>

(* _evaluate_rule_at_index lines 239-242 (248-251): save the rule's        *)
(* modifiers and overwrite them with None on the rule object itself.       *)
RuleAtIndexStrip ==
    /\ call.stage = "call"
    /\ LET rule == spec.entry_rules[call.k]
       IN  /\ call' = [call EXCEPT !.stage = "stripped",
                                   !.original_lookahead = rule.lookahead_days,
                                   !.original_duration = rule.duration_days]
           /\ spec' = [spec EXCEPT !.entry_rules[call.k].lookahead_days = None,
                                   !.entry_rules[call.k].duration_days = None]
    /\ UNCHANGED <<threads, data, parsed, retry, state, graph, index, work,
                   strategy_return, equity_curve, returned, validation,
                   df, spec_in, pc, i, position, positions, entry_ok, exit_ok,
                   entry_reasons, exit_reasons, exit_evaluated, current_trade,
                   trades, ev>>

(* Mutant: the saved modifiers are not written back.                      *)
RuleAtIndexReturnNoRestore ==
    /\ call.stage = "stripped"
    /\ LET k == call.k
           result == EvaluateRule(spec.entry_rules[k], i + call.offset, df)
           rules == spec.entry_rules
           seq == SeqAfterProbe(rules, i, Len(df), call, result)
           start == ReasonStart(rules, i, df)
           scan == ReasonAfterProbe(rules, i, df, call, result, entry_reasons)
       IN  /\ UNCHANGED spec
           /\ IF call.phase = "seq"
              THEN IF seq.kind = "probe"
                   THEN /\ call' = seq.call
                        /\ UNCHANGED <<entry_ok, entry_reasons>>
                   ELSE /\ entry_ok' = seq.value
                        /\ IF pc = "extract_trades" /\ seq.value
                           THEN /\ entry_reasons' = start.reasons
                                /\ call' = IF start.kind = "probe"
                                           THEN start.call ELSE EntryDone
                           ELSE /\ call' = EntryDone
                                /\ entry_reasons' =
                                       IF pc = "extract_trades" THEN << >>
                                       ELSE entry_reasons
              ELSE /\ entry_reasons' = scan.reasons
                   /\ call' = IF scan.kind = "probe" THEN scan.call ELSE EntryDone
                   /\ UNCHANGED entry_ok
    /\ UNCHANGED <<threads, data, parsed, retry, state, graph, index, work,
                   strategy_return, equity_curve, returned, validation,
                   df, spec_in, pc, i, position, positions, exit_ok,
                   exit_reasons, exit_evaluated, current_trade, trades, ev>>

(* _evaluate_rule_at_index lines 243-246 (252-255): evaluate the rule as   *)
(* it now stands, write the saved modifiers back and return to the caller, *)
(* which probes again or finishes.                                         *)
RuleAtIndexReturn ==
    /\ call.stage = "stripped"
    /\ LET k == call.k
           result == EvaluateRule(spec.entry_rules[k], i + call.offset, df)
           restored == [spec EXCEPT
                           !.entry_rules[k].lookahead_days = call.original_lookahead,
                           !.entry_rules[k].duration_days = call.original_duration]
           rules == restored.entry_rules
           seq == SeqAfterProbe(rules, i, Len(df), call, result)
           start == ReasonStart(rules, i, df)
           scan == ReasonAfterProbe(rules, i, df, call, result, entry_reasons)
       IN  /\ spec' = restored
           /\ IF call.phase = "seq"
              THEN IF seq.kind = "probe"
                   THEN /\ call' = seq.call
                        /\ UNCHANGED <<entry_ok, entry_reasons>>
                   ELSE /\ entry_ok' = seq.value
                        /\ IF pc = "extract_trades" /\ seq.value
                           THEN /\ entry_reasons' = start.reasons
                                /\ call' = IF start.kind = "probe"
                                           THEN start.call ELSE EntryDone
                           ELSE /\ call' = EntryDone
                                /\ entry_reasons' =
                                       IF pc = "extract_trades" THEN << >>
                                       ELSE entry_reasons
              ELSE /\ entry_reasons' = scan.reasons
                   /\ call' = IF scan.kind = "probe" THEN scan.call ELSE EntryDone
                   /\ UNCHANGED entry_ok
    /\ UNCHANGED <<threads, data, parsed, retry, state, graph, index, work,
                   strategy_return, equity_curve, returned, validation,
                   df, spec_in, pc, i, position, positions, exit_ok,
                   exit_reasons, exit_evaluated, current_trade, trades, ev>>

(* Mutant: either signal flips the position.                               *)
NextPositionToggle(pos, eok, xok) ==
    IF eok \/ xok THEN 1 - pos ELSE pos

(* Mutant: the transition does not look at the current position.          *)
NextPositionIgnoringState(pos, eok, xok) ==
    IF eok THEN 1
    ELSE IF xok THEN 0
    ELSE pos

(* run_backtest lines 333-336 *)
NextPosition(pos, eok, xok) ==
    IF pos = 0 /\ eok THEN 1
    ELSE IF pos = 1 /\ xok THEN 0
    ELSE pos

(* run_backtest lines 314-338: one iteration of the loop.                  *)
RunBacktestStep ==
    /\ pc = "run_backtest"
    /\ i < Len(df)
    /\ EntryReady
    /\ LET eok == IF spec.entry_sequential THEN entry_ok
                  ELSE EvaluateRules(spec.entry_rules, i, df)
           ex == BacktestExitLoop(spec.exit_rules, i, df, 1)
       IN  /\ entry_ok' = eok
           /\ exit_ok' = ex.exit_ok
           /\ exit_evaluated' = ex.evaluated
           /\ position' = NextPosition(position, eok, ex.exit_ok)
           /\ positions' = Append(positions, NextPosition(position, eok, ex.exit_ok))
    /\ i' = i + 1
    /\ call' = Idle
    /\ UNCHANGED <<threads, data, parsed, retry, state, graph, index, work,
                   strategy_return, equity_curve, returned, validation,
                   df, spec, spec_in, pc, entry_reasons, exit_reasons,
                   current_trade, trades, ev>>

(* run_backtest lines 340-346: the loop is over, the result is returned.   *)
RunBacktestReturn ==
    /\ pc = "run_backtest"
    /\ i = Len(df)
    /\ pc' = "backtest_returned"
    /\ strategy_return' = StrategyReturn(positions, df)
    /\ equity_curve' = EquityCurve(StrategyReturn(positions, df))
    /\ returned' = Append(returned,
           BacktestResult(positions, StrategyReturn(positions, df),
                          EquityCurve(StrategyReturn(positions, df))))
    /\ work' = WithResults(work, positions, StrategyReturn(positions, df),
                            EquityCurve(StrategyReturn(positions, df)))
    /\ df' = CallerRows(work', df)
    /\ index' = CallerIndex(work', index)
    /\ UNCHANGED <<threads, data, parsed, retry, state, graph,
                   validation,
                   spec, spec_in, i, position, positions, entry_ok, exit_ok,
                   entry_reasons, exit_reasons, exit_evaluated, current_trade,
                   trades, call, ev>>

(* extract_trades lines 354-358: a fresh walk over the same table.         *)
ExtractTradesCall ==
    /\ pc = "backtest_returned"
    /\ pc' = "extract_trades"
    /\ i' = 0
    /\ position' = 0
    /\ trades' = << >>
    /\ current_trade' = None
    /\ work' = DfCopy(df)
    /\ UNCHANGED <<threads, data, parsed, retry, state, graph, index,
                   strategy_return, equity_curve, returned, validation,
                   df, spec, spec_in, positions, entry_ok, exit_ok,
                   entry_reasons, exit_reasons, exit_evaluated, call, ev>>

(* Mutant: the exit test is a second `if`, so a bar that opens a trade can *)
(* close it as well.                                                       *)
ExtractTradesStepSecondIf ==
    /\ pc = "extract_trades"
    /\ i < Len(df)
    /\ EntryReady
    /\ LET std == GetTriggeredRules(spec.entry_rules, i, df, TRUE)
           eok == IF spec.entry_sequential THEN entry_ok ELSE std.all_passed
           ereasons == IF spec.entry_sequential THEN entry_reasons ELSE std.reasons
           ex == TradesExitLoop(spec.exit_rules, i, df, 1)
           date_str == DateStr(df, i)
           close_price == ClosePrice(df, i)
           opened == position = 0 /\ eok
           held == IF opened
                   THEN Some(Trade(date_str, close_price, EntryReasonText(ereasons)))
                   ELSE current_trade
       IN  /\ entry_ok' = eok
           /\ entry_reasons' = ereasons
           /\ exit_ok' = ex.exit_ok
           /\ exit_reasons' = ex.exit_reasons
           /\ exit_evaluated' = ex.evaluated
           /\ IF (opened \/ position = 1) /\ ex.exit_ok /\ held # None
              THEN /\ trades' = Append(trades,
                          CloseTrade(Val(held), date_str, close_price,
                                     ExitReasonText(ex.exit_reasons)))
                   /\ current_trade' = None
                   /\ position' = 0
              ELSE /\ current_trade' = held
                   /\ position' = IF opened THEN 1 ELSE position
                   /\ UNCHANGED trades
    /\ i' = i + 1
    /\ call' = Idle
    /\ UNCHANGED <<threads, data, parsed, retry, state, graph, index, work,
                   strategy_return, equity_curve, returned, validation,
                   df, spec, spec_in, pc, positions, ev>>

(* extract_trades lines 360-443: one iteration of the loop.                *)
ExtractTradesStep ==
    /\ pc = "extract_trades"
    /\ i < Len(df)
    /\ EntryReady
    /\ LET std == GetTriggeredRules(spec.entry_rules, i, df, TRUE)
           eok == IF spec.entry_sequential THEN entry_ok ELSE std.all_passed
           ereasons == IF spec.entry_sequential THEN entry_reasons ELSE std.reasons
           ex == TradesExitLoop(spec.exit_rules, i, df, 1)
           xok == ex.exit_ok
           xreasons == ex.exit_reasons
           date_str == DateStr(df, i)
           close_price == ClosePrice(df, i)
       IN  /\ entry_ok' = eok
           /\ entry_reasons' = ereasons
           /\ exit_ok' = xok
           /\ exit_reasons' = xreasons
           /\ exit_evaluated' = ex.evaluated
           /\ IF position = 0 /\ eok
              THEN /\ current_trade' =
                          Some(Trade(date_str, close_price, EntryReasonText(ereasons)))
                   /\ position' = 1
                   /\ UNCHANGED trades
              ELSE IF position = 1 /\ xok /\ current_trade # None
              THEN /\ trades' = Append(trades,
                          CloseTrade(Val(current_trade), date_str, close_price,
                                     ExitReasonText(xreasons)))
                   /\ current_trade' = None
                   /\ position' = 0
              ELSE UNCHANGED <<current_trade, position, trades>>
    /\ i' = i + 1
    /\ call' = Idle
    /\ UNCHANGED <<threads, data, parsed, retry, state, graph, index, work,
                   strategy_return, equity_curve, returned, validation,
                   df, spec, spec_in, pc, positions, ev>>

(* Mutant: a trade still open after the last bar is returned as it is.     *)
ExtractTradesReturnStillOpen ==
    /\ pc = "extract_trades"
    /\ i = Len(df)
    /\ trades' = IF current_trade # None /\ position = 1
                 THEN Append(trades, Val(current_trade)) ELSE trades
    /\ returned' = Append(returned,
           TradesResult(IF current_trade # None /\ position = 1
                        THEN Append(trades, Val(current_trade)) ELSE trades))
    /\ pc' = "done"
    /\ UNCHANGED <<threads, data, parsed, retry, state, graph, index, work,
                   strategy_return, equity_curve, validation, current_trade,
                   df, spec, spec_in, i, position, positions, entry_ok, exit_ok,
                   entry_reasons, exit_reasons, exit_evaluated, call, ev>>

(* extract_trades lines 445-461: close a trade still open, and return.     *)
(* The exit fields are written to the object current_trade names and that  *)
(* object is appended, so current_trade ends as the closed trade.          *)
ExtractTradesReturn ==
    /\ pc = "extract_trades"
    /\ i = Len(df)
    /\ IF current_trade # None /\ position = 1
       THEN LET closed == CloseTrade(Val(current_trade), EndDateStr(df),
                                     ClosePrice(df, Len(df) - 1),
                                     "End of backtest period (still holding)")
            IN  /\ trades' = Append(trades, closed)
                /\ current_trade' = Some(closed)
       ELSE UNCHANGED <<trades, current_trade>>
    /\ pc' = "done"
    /\ returned' = Append(returned,
           TradesResult(IF current_trade # None /\ position = 1
                        THEN Append(trades,
                                 CloseTrade(Val(current_trade), EndDateStr(df),
                                            ClosePrice(df, Len(df) - 1),
                                            "End of backtest period (still holding)"))
                        ELSE trades))
    /\ UNCHANGED <<threads, data, parsed, retry, state, graph, index, work,
                   strategy_return, equity_curve, validation,
                   df, spec, spec_in, i, position, positions, entry_ok, exit_ok,
                   entry_reasons, exit_reasons, exit_evaluated, call, ev>>

Next ==
    \/ SeqEntryBegin
    \/ RuleAtIndexStrip
    \/ RuleAtIndexReturn
    \/ RunBacktestStep
    \/ RunBacktestReturn
    \/ ExtractTradesCall
    \/ ExtractTradesStep
    \/ ExtractTradesReturn

Spec == Init /\ [][Next]_vars

-----------------------------------------------------------------------------
(* A caller that invokes run_backtest and extract_trades repeatedly on the *)
(* same specification object and the same table.                           *)

MaxCalls == 4

AgainShapes ==
    {<< <<Some(2), Some(1)>>, <<Some(1), Some(2)>> >>,
     << <<Some(2), Some(1)>>, <<Some(2), Some(1)>> >>,
     << <<Some(1), Some(2)>>, <<Some(1), Some(3)>> >>}

InitAgain ==
    /\ \E en \in LaggingEntries, sq \in BOOLEAN :
         /\ spec = StrategySpec(en, <<Cross("below", Unmodified)>>, sq)
         /\ spec_in = spec
         /\ df \in Tables(spec, NBars, AgainShapes)
    /\ pc = "run_backtest"
    /\ Locals
    /\ Outside
    /\ index = RangeIndex(Len(df))
    /\ work = DfCopy(df)

(* run_backtest lines 308-312, called after an earlier call has returned.  *)
RunBacktestCall ==
    /\ pc \in {"backtest_returned", "done"}
    /\ Len(returned) < MaxCalls
    /\ pc' = "run_backtest"
    /\ i' = 0
    /\ position' = 0
    /\ positions' = << >>
    /\ work' = DfCopy(df)
    /\ UNCHANGED <<threads, data, parsed, retry, state, graph, index,
                   strategy_return, equity_curve, returned, validation,
                   df, spec, spec_in, entry_ok, exit_ok, entry_reasons,
                   exit_reasons, exit_evaluated, current_trade, trades, call, ev>>

(* extract_trades lines 354-358, called after an earlier extract_trades.   *)
ExtractTradesCallAgain ==
    /\ pc = "done"
    /\ Len(returned) < MaxCalls
    /\ pc' = "extract_trades"
    /\ i' = 0
    /\ position' = 0
    /\ trades' = << >>
    /\ current_trade' = None
    /\ work' = DfCopy(df)
    /\ UNCHANGED <<threads, data, parsed, retry, state, graph, index,
                   strategy_return, equity_curve, returned, validation,
                   df, spec, spec_in, positions, entry_ok, exit_ok,
                   entry_reasons, exit_reasons, exit_evaluated, call, ev>>

NextAgain ==
    \/ Next
    \/ RunBacktestCall
    \/ ExtractTradesCallAgain

SpecAgain == InitAgain /\ [][NextAgain]_vars

-----------------------------------------------------------------------------
(* The crossover scenario of the specification: ten bars, the fast average *)
(* not above the slow one on bars 0..3, above it on bars 4..7 and below it *)
(* on bars 8..9; one unmodified entry rule and one unmodified exit rule.   *)

NotAbove == {<<Some(1), Some(2)>>, <<Some(1), Some(1)>>, <<NaN, Some(1)>>}

ScenarioTables(s) ==
    {[idx \in 1..10 |->
         BaseRow(idx - 1) @@
         MaPart(s, IF idx <= 4 THEN early[idx]
                   ELSE IF idx <= 8 THEN <<Some(2), Some(1)>>
                   ELSE <<Some(1), Some(2)>>)] :
        early \in [1..4 -> NotAbove]}

InitScenario ==
    /\ \E sq \in BOOLEAN :
         /\ spec = StrategySpec(<<Cross("above", Unmodified)>>,
                                <<Cross("below", Unmodified)>>, sq)
         /\ spec_in = spec
         /\ df \in ScenarioTables(spec)
    /\ pc = "run_backtest"
    /\ Locals
    /\ Outside
    /\ index = RangeIndex(Len(df))
    /\ work = DfCopy(df)

SpecScenario == InitScenario /\ [][Next]_vars

-----------------------------------------------------------------------------
(* Direct calls of the evaluation functions on one bar, each recorded in   *)
(* ev: the function, the rule (its index in entry_rules, 0 for the whole   *)
(* list), the bar and what the call returned.                              *)

InitEval ==
    /\ \/ \E r \in Rules :
            /\ spec = StrategySpec(<<r>>, <<r>>, FALSE)
            /\ df \in Tables(spec, NBars, PairShapes)
       \/ \E en \in LaggingEntries :
            /\ spec = StrategySpec(en, <<Cross("below", Unmodified)>>, FALSE)
            /\ df \in Tables(spec, NBars, BarShapes)
    /\ spec_in = spec
    /\ pc = "evaluate"
    /\ Locals
    /\ Outside
    /\ index = RangeIndex(Len(df))
    /\ work = None

Called(fn, k, row_idx, result, reasons) ==
    /\ ev = NoEval
    /\ ev' = [fn |-> fn, k |-> k, row_idx |-> row_idx, result |-> result,
              reasons |-> reasons]
    /\ UNCHANGED <<threads, data, parsed, retry, state, graph, index, work,
                   strategy_return, equity_curve, returned, validation,
                   df, spec, spec_in, pc, i, position, positions, entry_ok, exit_ok,
                   entry_reasons, exit_reasons, exit_evaluated, current_trade,
                   trades, call>>

EvaluateCrossoverCall ==
    /\ pc = "evaluate"
    /\ \E k \in DOMAIN spec.entry_rules, t \in 0..(Len(df) - 1) :
         /\ spec.entry_rules[k].type = "crossover"
         /\ Called("_evaluate_crossover", k, t,
                   EvaluateCrossover(spec.entry_rules[k], t, df), << >>)

EvaluateVolFilterCall ==
    /\ pc = "evaluate"
    /\ \E k \in DOMAIN spec.entry_rules, t \in 0..(Len(df) - 1) :
         /\ spec.entry_rules[k].type = "vol_filter"
         /\ Called("_evaluate_vol_filter", k, t,
                   EvaluateVolFilter(spec.entry_rules[k], t, df), << >>)

EvaluateRulesCall ==
    /\ pc = "evaluate"
    /\ \E t \in 0..(Len(df) - 1) :
         Called("_evaluate_rules", 0, t, EvaluateRules(spec.entry_rules, t, df), << >>)

GetTriggeredRulesCall ==
    /\ pc = "evaluate"
    /\ \E t \in 0..(Len(df) - 1) :
         LET got == GetTriggeredRules(spec.entry_rules, t, df, TRUE)
         IN  Called("_get_triggered_rules", 0, t, got.all_passed, got.reasons)

ValidatorEntryRulesCall ==
    /\ pc = "evaluate"
    /\ \E t \in 0..(Len(df) - 1) :
         Called("_evaluate_entry_rules", 0, t,
                ValidatorEntryRules(spec.entry_rules, t, df), << >>)

NextEval ==
    \/ EvaluateCrossoverCall
    \/ EvaluateVolFilterCall
    \/ EvaluateRulesCall
    \/ GetTriggeredRulesCall
    \/ ValidatorEntryRulesCall

SpecEval == InitEval /\ [][NextEval]_vars

-----------------------------------------------------------------------------
(* validator.validate_spec *)

MsgDates == "Start date must be before end date."
MsgNoEntry == "At least one entry rule is required."
MsgNoExit == "At least one exit rule is required."
MsgNoMetrics == "No metrics specified; default metrics will be used."
MsgPositive == "Moving average windows must be positive integers."
MsgDiffer == "Fast and slow moving averages must differ."
MsgSmallMa == "Very small moving average windows (under 5 days) may be unstable or overly reactive."
MsgLargeMa == "Very large moving average windows (over 200 days) may make the strategy slow and unresponsive."
MsgVolWindow == "Volatility window must be greater than 1."
MsgLargeVol == "Very large volatility windows may dilute signal responsiveness."
MsgCrossBoth == "Entry rules require the same moving averages to be both above and below each other, which is impossible."
MsgVolBoth == "Entry rules require volatility to be both above and below the same threshold, which is impossible."

If(cond, msg) == IF cond THEN <<msg>> ELSE << >>

(* date >= date *)
DateGeq(a, b) ==
    \/ a.year > b.year
    \/ a.year = b.year /\ a.month > b.month
    \/ a.year = b.year /\ a.month = b.month /\ a.day >= b.day

(* Mutant: the last occurrence of each element is the one kept.            *)
RECURSIVE FromKeysKeepLast(_, _)
FromKeysKeepLast(xs, seen) ==
    IF Len(xs) = 0 THEN seen
    ELSE IF \E k \in DOMAIN Tail(xs) : Tail(xs)[k] = Head(xs)
    THEN FromKeysKeepLast(Tail(xs), seen)
    ELSE FromKeysKeepLast(Tail(xs), Append(seen, Head(xs)))

(* list(dict.fromkeys(xs)): the first occurrence of each element, in order. *)
RECURSIVE FromKeys(_, _)
FromKeys(xs, seen) ==
    IF Len(xs) = 0 THEN seen
    ELSE IF \E k \in DOMAIN seen : seen[k] = Head(xs)
    THEN FromKeys(Tail(xs), seen)
    ELSE FromKeys(Tail(xs), Append(seen, Head(xs)))

(* Mutant: the list is returned as it was collected.                       *)
Undeduped(xs) == xs

Dedupe(xs) == FromKeys(xs, << >>)

(* Mutant: equal moving-average windows are not reported.                  *)
RuleErrorsNoDiffer(rule) ==
    IF rule.type = "crossover"
    THEN If(rule.fast_ma <= 0 \/ rule.slow_ma <= 0, MsgPositive)
    ELSE IF rule.type = "vol_filter"
    THEN If(rule.window <= 1, MsgVolWindow)
    ELSE << >>

(* validate_spec lines 39-46, 54-57: what one rule appends. *)
RuleErrors(rule) ==
    IF rule.type = "crossover"
    THEN If(rule.fast_ma <= 0 \/ rule.slow_ma <= 0, MsgPositive)
             \o If(rule.fast_ma = rule.slow_ma, MsgDiffer)
    ELSE IF rule.type = "vol_filter"
    THEN If(rule.window <= 1, MsgVolWindow)
    ELSE << >>

RuleWarnings(rule) ==
    IF rule.type = "crossover"
    THEN If(rule.fast_ma < 5 \/ rule.slow_ma < 5, MsgSmallMa)
             \o If(rule.fast_ma > 200 \/ rule.slow_ma > 200, MsgLargeMa)
    ELSE IF rule.type = "vol_filter"
    THEN If(rule.window > 252 * 5, MsgLargeVol)
    ELSE << >>

RECURSIVE Flatten(_)
Flatten(lists) ==
    IF Len(lists) = 0 THEN << >> ELSE Head(lists) \o Flatten(Tail(lists))

(* `rule in spec.entry_rules`: dataclass equality, field by field. *)
InEntryRules(rule, s) ==
    \E k \in DOMAIN s.entry_rules :
        s.entry_rules[k].type = rule.type /\ s.entry_rules[k] = rule

(* The keys of crossover_entry / vol_entry in insertion order. *)
RuleKey(rule) ==
    IF rule.type = "crossover" THEN <<rule.fast_ma, rule.slow_ma>>
    ELSE <<rule.window, rule.threshold>>

KeysOf(rules, type) ==
    Dedupe(Flatten([k \in DOMAIN rules |->
                       IF rules[k].type = type THEN <<RuleKey(rules[k])>> ELSE << >>]))

(* crossover_entry[key] / vol_entry[key]: what the entry rules demand. *)
Demanded(s, rules, type, key) ==
    {IF type = "crossover" THEN rules[k].direction ELSE rules[k].relation :
        k \in {j \in DOMAIN rules : /\ rules[j].type = type
                                    /\ RuleKey(rules[j]) = key
                                    /\ InEntryRules(rules[j], s)}}

(* validate_spec lines 64-70 *)
Contradictions(s, rules, type, msg) ==
    LET keys == KeysOf(rules, type)
    IN  Flatten([k \in DOMAIN keys |->
                    If({"above", "below"} \subseteq Demanded(s, rules, type, keys[k]), msg)])

ValidationResult(errors, warnings, raw_errors, raw_warnings, scanned) ==
    [ok |-> Len(errors) = 0, errors |-> errors, warnings |-> warnings,
     raw_errors |-> raw_errors, raw_warnings |-> raw_warnings, scanned |-> scanned]

ValidateSpec(s) ==
    LET rules == s.entry_rules \o s.exit_rules
        errors == If(DateGeq(s.start_date, s.end_date), MsgDates)
                      \o If(Len(s.entry_rules) = 0, MsgNoEntry)
                      \o If(Len(s.exit_rules) = 0, MsgNoExit)
                      \o Flatten([k \in DOMAIN rules |-> RuleErrors(rules[k])])
                      \o Contradictions(s, rules, "crossover", MsgCrossBoth)
                      \o Contradictions(s, rules, "vol_filter", MsgVolBoth)
        warnings == If(Len(s.metrics) = 0, MsgNoMetrics)
                      \o Flatten([k \in DOMAIN rules |-> RuleWarnings(rules[k])])
    IN  ValidationResult(Dedupe(errors), Dedupe(warnings), errors, warnings, 0)

-----------------------------------------------------------------------------
(* validator.validate_with_data *)

MsgNoData == "No price data is available for the requested period."
MsgNoEntries == "Given the historical data and rules, this strategy is unlikely to generate any entries. It may produce zero trades."
MsgNoExits == "Entry conditions can occur, but exit conditions never trigger on this data. Positions may never close once opened."

MsgLookback(required_len, n) ==
    "Strategy uses long lookback windows (up to " \o ToString(required_len)
        \o " days) but only " \o ToString(n)
        \o " data points are available. Early signal values may be unreliable."

Max(a, b) == IF a >= b THEN a ELSE b

RECURSIVE MaxOver(_, _)
MaxOver(xs, start) ==
    IF Len(xs) = 0 THEN start ELSE MaxOver(Tail(xs), Max(start, Head(xs)))

(* _evaluate_rule_at_index seen from outside: the rule evaluated with both *)
(* modifiers set to None.                                                  *)
Stripped(rule) == [rule EXCEPT !.lookahead_days = None, !.duration_days = None]

(* _evaluate_sequential_entry run to its return value. *)
RECURSIVE SeqRun(_, _, _, _)
SeqRun(rules, row_idx, d, c) ==
    LET result == EvaluateRule(Stripped(rules[c.k]), row_idx + c.offset, d)
        nxt == SeqAfterProbe(rules, row_idx, Len(d), c, result)
    IN  IF nxt.kind = "return" THEN nxt.value
        ELSE SeqRun(rules, row_idx, d, nxt.call)

EvaluateSequentialEntry(rules, row_idx, d) ==
    IF Len(rules) = 0 THEN FALSE
    ELSE SeqRun(rules, row_idx, d, Probe("seq", 1, 0, None))

(* Mutant: the validator evaluates every entry as a standard entry.         *)
EvaluateEntryRulesStandardOnly(s, row_idx, d) ==
    ValidatorEntryRules(s.entry_rules, row_idx, d)

(* validator._evaluate_entry_rules *)
EvaluateEntryRules(s, row_idx, d) ==
    IF s.entry_sequential THEN EvaluateSequentialEntry(s.entry_rules, row_idx, d)
    ELSE ValidatorEntryRules(s.entry_rules, row_idx, d)

(* validator._evaluate_exit_any *)
RECURSIVE ExitAny(_, _, _)
ExitAny(rules, row_idx, d) ==
    IF Len(rules) = 0 THEN FALSE
    ELSE IF EvaluateRule(Head(rules), row_idx, d) THEN TRUE
    ELSE ExitAny(Tail(rules), row_idx, d)

EvaluateExitAny(s, row_idx, d) == ExitAny(s.exit_rules, row_idx, d)

(* Mutant: the scan stops as soon as an entry has been seen.               *)
RECURSIVE ScanStopsAtEntry(_, _, _, _, _)
ScanStopsAtEntry(s, d, idx, any_entry, any_exit) ==
    IF idx >= Len(d)
    THEN [any_entry |-> any_entry, any_exit |-> any_exit, scanned |-> idx]
    ELSE LET e == any_entry \/ EvaluateEntryRules(s, idx, d)
             x == any_exit \/ EvaluateExitAny(s, idx, d)
         IN  IF e THEN [any_entry |-> e, any_exit |-> x, scanned |-> idx + 1]
             ELSE ScanStopsAtEntry(s, d, idx + 1, e, x)

(* validate_with_data lines 146-155: the scan, standing at bar idx.        *)
RECURSIVE Scan(_, _, _, _, _)
Scan(s, d, idx, any_entry, any_exit) ==
    IF idx >= Len(d)
    THEN [any_entry |-> any_entry, any_exit |-> any_exit, scanned |-> idx]
    ELSE LET e == any_entry \/ EvaluateEntryRules(s, idx, d)
             x == any_exit \/ EvaluateExitAny(s, idx, d)
         IN  IF e /\ x THEN [any_entry |-> e, any_exit |-> x, scanned |-> idx + 1]
             ELSE Scan(s, d, idx + 1, e, x)

(* validate_with_data lines 115-144 *)
RequiredLen(s) ==
    LET rules == s.entry_rules \o s.exit_rules
        max_ma == MaxOver(Flatten([k \in DOMAIN rules |->
                      IF rules[k].type = "crossover"
                      THEN <<rules[k].fast_ma, rules[k].slow_ma>> ELSE << >>]), 0)
        max_vol == MaxOver(Flatten([k \in DOMAIN rules |->
                      IF rules[k].type = "vol_filter"
                      THEN <<rules[k].window>> ELSE << >>]), 0)
        max_lookahead == MaxOver(Flatten([k \in DOMAIN rules |->
                      rules[k].lookahead_days]), 0)
        max_duration == MaxOver(Flatten([k \in DOMAIN rules |->
                      rules[k].duration_days]), 0)
        with_ma == IF max_ma > 0 THEN Max(0, max_ma + 10) ELSE 0
        with_vol == IF max_vol > 0 THEN Max(with_ma, max_vol + 252) ELSE with_ma
        with_lookahead == IF max_lookahead > 0
                          THEN Max(with_vol, max_lookahead + 10) ELSE with_vol
    IN  IF max_duration > 0 THEN Max(with_lookahead, max_duration + 10)
        ELSE with_lookahead

(* Mutant: only a missing table is refused; an empty one is scanned.       *)
ValidateWithDataMissingOnly(s, table) ==
    IF table = None
    THEN ValidationResult(<<MsgNoData>>, << >>, <<MsgNoData>>, << >>, 0)
    ELSE LET d == Val(table)
             seen == Scan(s, d, 0, FALSE, FALSE)
             warnings == If(RequiredLen(s) > 0 /\ Len(d) < RequiredLen(s),
                            MsgLookback(RequiredLen(s), Len(d)))
                           \o If(~seen.any_entry, MsgNoEntries)
                           \o If(seen.any_entry /\ ~seen.any_exit, MsgNoExits)
         IN  ValidationResult(<< >>, Dedupe(warnings), << >>, warnings, seen.scanned)

(* validate_with_data; the table is None when missing, Some(d) otherwise.  *)
ValidateWithData(s, table) ==
    IF table = None \/ Len(Val(table)) = 0
    THEN ValidationResult(<<MsgNoData>>, << >>, <<MsgNoData>>, << >>, 0)
    ELSE LET d == Val(table)
             seen == Scan(s, d, 0, FALSE, FALSE)
             errors == << >>
             warnings == If(RequiredLen(s) > 0 /\ Len(d) < RequiredLen(s),
                            MsgLookback(RequiredLen(s), Len(d)))
                           \o If(~seen.any_entry, MsgNoEntries)
                           \o If(seen.any_entry /\ ~seen.any_exit, MsgNoExits)
         IN  ValidationResult(Dedupe(errors), Dedupe(warnings), errors, warnings,
                              seen.scanned)

-----------------------------------------------------------------------------
(* Direct calls of the validator.  validation records the function, the   *)
(* table argument ("missing" for None, "empty", "table") and the result.  *)

MaxEntryRules == 4

EntryUniverse ==
    {CrossoverRule(10, 50, "above", None, None),
     CrossoverRule(10, 50, "below", None, None),
     CrossoverRule(3, 50, "above", None, None),
     CrossoverRule(3, 50, "below", None, None),
     VolFilterRule(20, "below", None, None),
     VolFilterRule(20, "above", None, None)}

ExitUniverse ==
    {CrossoverRule(10, 50, "below", None, None),
     CrossoverRule(0, 50, "below", None, None),
     CrossoverRule(50, 50, "above", None, None),
     CrossoverRule(10, 250, "below", None, None),
     VolFilterRule(1, "above", None, None),
     VolFilterRule(1500, "above", None, None)}

SeqsUpTo(U, n) == UNION {[1..k -> U] : k \in 0..n}

(* <<start_date, end_date, metrics>> *)
Headers ==
    {<<[year |-> 2024, month |-> 1, day |-> 2], [year |-> 2024, month |-> 12, day |-> 31],
       <<"cagr", "max_drawdown", "sharpe">> >>,
     <<[year |-> 2024, month |-> 12, day |-> 31], [year |-> 2024, month |-> 12, day |-> 31],
       <<"cagr", "max_drawdown", "sharpe">> >>,
     <<[year |-> 2024, month |-> 1, day |-> 2], [year |-> 2024, month |-> 12, day |-> 31],
       << >> >>}

StructuralSpecs ==
    {[StrategySpec(en, ex, FALSE) EXCEPT !.start_date = h[1], !.end_date = h[2],
                                         !.metrics = h[3]] :
        en \in SeqsUpTo(EntryUniverse, MaxEntryRules),
        ex \in SeqsUpTo(ExitUniverse, 1)
                  \cup {<<CrossoverRule(10, 250, "below", None, None),
                           CrossoverRule(0, 50, "below", None, None)>>},
        h \in Headers}

InitValidate ==
    /\ \/ /\ spec \in StructuralSpecs
          /\ df = << >>
       \/ /\ spec \in Strategies
          /\ df \in Tables(spec, NBars, BarShapes)
    /\ spec_in = spec
    /\ pc = "validate"
    /\ Locals
    /\ Outside
    /\ index = RangeIndex(Len(df))
    /\ work = None

Validated(fn, table, result) ==
    /\ validation = NoValidation
    /\ validation' = [fn |-> fn, table |-> table, result |-> result]
    /\ UNCHANGED <<threads, data, parsed, retry, state, graph, index, work,
                   strategy_return, equity_curve, returned,
                   df, spec, spec_in, pc, i, position, positions, entry_ok, exit_ok,
                   entry_reasons, exit_reasons, exit_evaluated, current_trade,
                   trades, call, ev>>

ValidateSpecCall ==
    /\ pc = "validate"
    /\ Validated("validate_spec", "none", ValidateSpec(spec))

ValidateWithDataCall ==
    /\ pc = "validate"
    /\ Validated("validate_with_data", IF Len(df) = 0 THEN "empty" ELSE "table",
                 ValidateWithData(spec, Some(df)))

ValidateWithDataMissingCall ==
    /\ pc = "validate"
    /\ Validated("validate_with_data", "missing", ValidateWithData(spec, None))

NextValidate ==
    \/ ValidateSpecCall
    \/ ValidateWithDataCall
    \/ ValidateWithDataMissingCall

SpecValidate == InitValidate /\ [][NextValidate]_vars

-----------------------------------------------------------------------------
(* The caller's table across run_backtest, extract_trades and              *)
(* validate_with_data. load_price_data labels the rows by position; a      *)
(* caller that indexed its table by trading day has other labels, which    *)
(* reset_index(drop=True) replaces on the copy only.                       *)

DatetimeIndex(n) == [k \in 1..n |-> 20240100 + k]

InitFrame ==
    /\ \E sq \in BOOLEAN :
         /\ spec = StrategySpec(<<Cross("above", Unmodified)>>,
                                <<Cross("below", Unmodified)>>, sq)
         /\ spec_in = spec
         /\ df \in ScenarioTables(spec)
    /\ pc \in {"run_backtest", "validate"}
    /\ Locals
    /\ Outside
    /\ index \in {RangeIndex(Len(df)), DatetimeIndex(Len(df))}
    /\ work = IF pc = "run_backtest" THEN DfCopy(df) ELSE None

NextFrame ==
    \/ Next
    \/ ValidateWithDataCall

SpecFrame == InitFrame /\ [][NextFrame]_vars

-----------------------------------------------------------------------------
(* strategy_spec: StrategySpec.to_dict and parse_strategy_spec.  A dict is *)
(* a function on its keys; an ISO date text is its sequence of characters; *)
(* a value that may be null (lookahead_days, duration_days) is << >> when  *)
(* null and <<v>> otherwise, as on the rule objects.                       *)

Get(d, key, default) == IF key \in DOMAIN d THEN d[key] ELSE default

DigitChars == <<"0", "1", "2", "3", "4", "5", "6", "7", "8", "9">>

IsDigit(c) == \E k \in DOMAIN DigitChars : DigitChars[k] = c

DigitValue(c) == (CHOOSE k \in DOMAIN DigitChars : DigitChars[k] = c) - 1

RECURSIVE Digits(_, _)
Digits(n, width) ==
    IF width = 0 THEN << >>
    ELSE Append(Digits(n \div 10, width - 1), DigitChars[(n % 10) + 1])

RECURSIVE Number(_)
Number(chars) ==
    IF Len(chars) = 0 THEN 0
    ELSE 10 * Number(SubSeq(chars, 1, Len(chars) - 1)) + DigitValue(chars[Len(chars)])

IsLeap(year) == (year % 4 = 0 /\ year % 100 # 0) \/ year % 400 = 0

DaysInMonth(year, month) ==
    IF month = 2 THEN (IF IsLeap(year) THEN 29 ELSE 28)
    ELSE IF month \in {4, 6, 9, 11} THEN 30 ELSE 31

(* date.isoformat(): YYYY-MM-DD *)
IsoFormat(date) ==
    Digits(date.year, 4) \o <<"-">> \o Digits(date.month, 2) \o <<"-">>
        \o Digits(date.day, 2)

(* date.fromisoformat on a YYYY-MM-DD text: None when it raises.  (Other   *)
(* ISO 8601 layouts, which newer interpreters also read, are not drawn.)   *)
FromIsoFormat(text) ==
    IF /\ Len(text) = 10
       /\ text[5] = "-"
       /\ text[8] = "-"
       /\ \A k \in {1, 2, 3, 4, 6, 7, 9, 10} : IsDigit(text[k])
    THEN LET year == Number(SubSeq(text, 1, 4))
             month == Number(SubSeq(text, 6, 7))
             day == Number(SubSeq(text, 9, 10))
         IN  IF /\ year >= 1
                /\ month \in 1..12
                /\ day \in 1..DaysInMonth(year, month)
             THEN Some([year |-> year, month |-> month, day |-> day])
             ELSE None
    ELSE None

(* str(e) of the ValueError date.fromisoformat raises on a text it does not  *)
(* read: the text is not of the layout, or date(year, month, day) rejects  *)
(* the year, then the month, then the day.                                 *)
RECURSIVE Text(_)
Text(chars) == IF Len(chars) = 0 THEN "" ELSE Head(chars) \o Text(Tail(chars))

FromIsoFormatError(text) ==
    IF /\ Len(text) = 10
       /\ text[5] = "-"
       /\ text[8] = "-"
       /\ \A k \in {1, 2, 3, 4, 6, 7, 9, 10} : IsDigit(text[k])
    THEN IF Number(SubSeq(text, 1, 4)) < 1
         THEN "year " \o ToString(Number(SubSeq(text, 1, 4))) \o " is out of range"
         ELSE IF Number(SubSeq(text, 6, 7)) \notin 1..12
         THEN "month must be in 1..12"
         ELSE "day is out of range for month"
    ELSE "Invalid isoformat string: '" \o Text(text) \o "'"

(* int(x) of a value that is already an int *)
IntOf(x) == x

(* Mutant: a modifier is written only when it is truthy, so 0 is dropped.  *)
OptionalEntryIfTruthy(key, value) ==
    IF value # None /\ Val(value) # 0 THEN key :> value ELSE << >>

(* to_dict lines 50-53: `if rule.<key> is not None: base[<key>] = ...`     *)
OptionalEntry(key, value) ==
    IF value # None THEN key :> value ELSE << >>

(* to_dict lines 48-70 *)
RuleToDict(rule) ==
    ("type" :> rule.type)
        @@ OptionalEntry("lookahead_days", rule.lookahead_days)
        @@ OptionalEntry("duration_days", rule.duration_days)
        @@ IF rule.type = "crossover"
           THEN [fast_ma |-> rule.fast_ma, slow_ma |-> rule.slow_ma,
                 direction |-> rule.direction]
           ELSE [window |-> rule.window, threshold |-> rule.threshold,
                 relation |-> rule.relation]

(* StrategySpec.to_dict *)
ToDict(s) ==
    [ticker |-> s.ticker,
     start_date |-> IsoFormat(s.start_date),
     end_date |-> IsoFormat(s.end_date),
     entry_rules |-> [k \in DOMAIN s.entry_rules |-> RuleToDict(s.entry_rules[k])],
     exit_rules |-> [k \in DOMAIN s.exit_rules |-> RuleToDict(s.exit_rules[k])],
     metrics |-> s.metrics]
        @@ IF s.entry_sequential THEN "entry_sequential" :> TRUE ELSE << >>

(* What a call did: returned `result`, or an exception left function fn.   *)
Returned(fn, result) == [fn |-> fn, raised |-> "none", message |-> "", result |-> result]

Raised(fn, exception, message) ==
    [fn |-> fn, raised |-> exception, message |-> message, result |-> << >>]

(* `int(x) if x is not None else None` *)
OptionalInt(value) == IF value = None THEN None ELSE Some(IntOf(Val(value)))

MissingKeys(d, keys) == {k \in DOMAIN keys : keys[k] \notin DOMAIN d}

FirstOf(S) == CHOOSE x \in S : \A y \in S : x <= y

(* d[key] for the first key of `keys` that d lacks *)
KeyError(fn, d, keys) ==
    Raised(fn, "KeyError", "'" \o keys[FirstOf(MissingKeys(d, keys))] \o "'")

(* _parse_rule *)
ParseRule(rule_dict) ==
    LET rtype == Get(rule_dict, "type", "None")
        lookahead == Get(rule_dict, "lookahead_days", None)
        duration == Get(rule_dict, "duration_days", None)
    IN  IF rtype = "crossover"
        THEN IF MissingKeys(rule_dict, <<"fast_ma", "slow_ma", "direction">>) # {}
             THEN KeyError("_parse_rule", rule_dict, <<"fast_ma", "slow_ma", "direction">>)
             ELSE Returned("_parse_rule",
                      CrossoverRule(IntOf(rule_dict["fast_ma"]), IntOf(rule_dict["slow_ma"]),
                                    rule_dict["direction"],
                                    OptionalInt(lookahead), OptionalInt(duration)))
        ELSE IF rtype = "vol_filter"
        THEN IF MissingKeys(rule_dict, <<"window">>) # {}
             THEN KeyError("_parse_rule", rule_dict, <<"window">>)
             ELSE Returned("_parse_rule",
                      [VolFilterRule(IntOf(rule_dict["window"]),
                                     Get(rule_dict, "relation", "below"),
                                     OptionalInt(lookahead), OptionalInt(duration))
                           EXCEPT !.threshold = Get(rule_dict, "threshold", "median_1y")])
        ELSE Raised("_parse_rule", "ValueError", "Unknown rule type: " \o rtype)

(* [_parse_rule(r) for r in rule_dicts]: the list, or the first exception  *)
ParseRules(rule_dicts) ==
    LET outs == [k \in DOMAIN rule_dicts |-> ParseRule(rule_dicts[k])]
        bad == {k \in DOMAIN outs : outs[k].raised # "none"}
    IN  IF bad = {} THEN Returned("_parse_rule", [k \in DOMAIN outs |-> outs[k].result])
        ELSE outs[FirstOf(bad)]

(* data["ticker"].upper().strip() on the tickers drawn *)
UpperStrip(ticker) ==
    IF ticker \in {"SPY", "spy", " spy "} THEN "SPY" ELSE ticker

DefaultMetrics == <<"cagr", "max_drawdown", "sharpe">>

(* parse_strategy_spec.  A missing date key raises KeyError inside the     *)
(* try block and leaves as the same ValueError as an unreadable date.      *)
ParseStrategySpec(d) ==
    LET fn == "parse_strategy_spec"
        start == IF "start_date" \in DOMAIN d THEN FromIsoFormat(d["start_date"]) ELSE None
        end == IF "end_date" \in DOMAIN d THEN FromIsoFormat(d["end_date"]) ELSE None
        entry_rules == ParseRules(Get(d, "entry_rules", << >>))
        exit_rules == ParseRules(Get(d, "exit_rules", << >>))
        cause == IF "start_date" \notin DOMAIN d THEN "'start_date'"
                 ELSE IF start = None THEN FromIsoFormatError(d["start_date"])
                 ELSE IF "end_date" \notin DOMAIN d THEN "'end_date'"
                 ELSE FromIsoFormatError(d["end_date"])
    IN  IF start = None \/ end = None
        THEN Raised(fn, "ValueError", "Invalid date format in spec: " \o cause)
        ELSE IF entry_rules.raised # "none" THEN entry_rules
        ELSE IF exit_rules.raised # "none" THEN exit_rules
        ELSE IF Len(entry_rules.result) = 0
        THEN Raised(fn, "ValueError", "At least one entry rule is required.")
        ELSE IF Len(exit_rules.result) = 0
        THEN Raised(fn, "ValueError", "At least one exit rule is required.")
        ELSE IF "ticker" \notin DOMAIN d THEN KeyError(fn, d, <<"ticker">>)
        ELSE Returned(fn,
                 [ticker |-> UpperStrip(d["ticker"]),
                  start_date |-> Val(start), end_date |-> Val(end),
                  entry_rules |-> entry_rules.result,
                  exit_rules |-> exit_rules.result,
                  metrics |-> Get(d, "metrics", DefaultMetrics),
                  entry_sequential |-> Get(d, "entry_sequential", FALSE)])

(* Harness: a specification is serialized and parsed back, or a raw dict   *)
(* is parsed; what parses is handed to validate_spec.                      *)

MaxParsedRules == 2

Field(key, opt) == IF opt = None THEN << >> ELSE key :> Val(opt)

RawCross == [type |-> "crossover", fast_ma |-> 10, slow_ma |-> 50, direction |-> "above"]

RawRules ==
    {RawCross,
     RawCross @@ ("lookahead_days" :> Some(3)) @@ ("duration_days" :> Some(2)),
     RawCross @@ ("lookahead_days" :> None),
     [type |-> "vol_filter", window |-> 20],
     [type |-> "rsi", window |-> 14],
     [fast_ma |-> 10, slow_ma |-> 50, direction |-> "above"],
     [type |-> "crossover", slow_ma |-> 50, direction |-> "above"]}

DateTexts ==
    {IsoFormat([year |-> 2024, month |-> 2, day |-> 29]),
     IsoFormat([year |-> 2023, month |-> 2, day |-> 29]),
     IsoFormat([year |-> 2024, month |-> 13, day |-> 1]),
     <<"0", "2", "/", "0", "1", "/", "2", "0", "2", "4">>,
     << >>}

EndDateTexts ==
    {IsoFormat([year |-> 2024, month |-> 12, day |-> 31]),
     IsoFormat([year |-> 2024, month |-> 11, day |-> 31])}

(* ticker, metrics and entry_sequential of a raw dict, each given or not   *)
RawHeaders ==
    {[ticker |-> "SPY", metrics |-> <<"cagr">>],
     [ticker |-> " spy ", entry_sequential |-> TRUE],
     [metrics |-> << >>]}

RawDicts ==
    {h @@ Field("start_date", start) @@ Field("end_date", end)
       @@ Field("entry_rules", en) @@ Field("exit_rules", ex) :
        h \in RawHeaders,
        start \in {None} \cup {Some(t) : t \in DateTexts},
        end \in {None} \cup {Some(t) : t \in EndDateTexts},
        en \in {None} \cup {Some(rules) : rules \in SeqsUpTo(RawRules, MaxParsedRules)},
        ex \in {None} \cup {Some(rules) : rules \in SeqsUpTo(RawRules, 1)}}

RoundTripRules ==
    {CrossoverRule(10, 50, "above", None, None),
     CrossoverRule(10, 50, "below", Some(0), None),
     CrossoverRule(10, 50, "above", None, Some(0)),
     CrossoverRule(5, 20, "below", Some(2), Some(1)),
     VolFilterRule(20, "below", None, None),
     VolFilterRule(20, "above", Some(0), None),
     VolFilterRule(30, "below", None, Some(3)),
     VolFilterRule(30, "above", Some(1), None)}

NonEmptySeqsUpTo(U, n) == UNION {[1..k -> U] : k \in 1..n}

RoundTripSpecs ==
    {[StrategySpec(en, ex, sq) EXCEPT !.start_date = start] :
        en \in NonEmptySeqsUpTo(RoundTripRules, MaxParsedRules),
        ex \in NonEmptySeqsUpTo(RoundTripRules, 1),
        sq \in BOOLEAN,
        start \in {[year |-> 2024, month |-> 1, day |-> 2],
                   [year |-> 2024, month |-> 2, day |-> 29]}}

InitParse ==
    /\ \/ /\ spec \in RoundTripSpecs
          /\ data = None
          /\ pc = "to_dict"
       \/ /\ spec = None
          /\ data \in RawDicts
          /\ pc = "parse_strategy_spec"
    /\ spec_in = spec
    /\ df = << >>
    /\ Locals
    /\ parsed = NoParse
    /\ threads = NoThreads
    /\ retry = NoRetry
    /\ state = None
    /\ graph = NoGraph
    /\ index = << >>
    /\ work = None

(* s.to_dict() *)
ToDictCall ==
    /\ pc = "to_dict"
    /\ data' = ToDict(spec)
    /\ pc' = "parse_strategy_spec"
    /\ UNCHANGED <<threads, parsed, retry, state, graph, index, work,
                   strategy_return, equity_curve, returned, validation,
                   df, spec, spec_in, i, position, positions, entry_ok, exit_ok,
                   entry_reasons, exit_reasons, exit_evaluated, current_trade,
                   trades, call, ev>>

(* parse_strategy_spec(data) *)
ParseStrategySpecCall ==
    /\ pc = "parse_strategy_spec"
    /\ parsed' = ParseStrategySpec(data)
    /\ pc' = IF parsed'.raised = "none" THEN "validate_spec" ELSE "done"
    /\ UNCHANGED <<threads, data, retry, state, graph, index, work,
                   strategy_return, equity_curve, returned, validation,
                   df, spec, spec_in, i, position, positions, entry_ok, exit_ok,
                   entry_reasons, exit_reasons, exit_evaluated, current_trade,
                   trades, call, ev>>

(* validate_spec(spec) on the specification the parser returned *)
ValidateParsedCall ==
    /\ pc = "validate_spec"
    /\ validation' = [fn |-> "validate_spec", table |-> "none",
                      result |-> ValidateSpec(parsed.result)]
    /\ pc' = "done"
    /\ UNCHANGED <<threads, data, parsed, retry, state, graph, index, work,
                   strategy_return, equity_curve, returned,
                   df, spec, spec_in, i, position, positions, entry_ok, exit_ok,
                   entry_reasons, exit_reasons, exit_evaluated, current_trade,
                   trades, call, ev>>

NextParse ==
    \/ ToDictCall
    \/ ParseStrategySpecCall
    \/ ValidateParsedCall

SpecParse == InitParse /\ [][NextParse]_vars

-----------------------------------------------------------------------------
(* pipeline/errors.py: retry_with_backoff and its two specialisations      *)

MaxRetries == 3

(* The exception classes the decorated functions raise, each with its base
   class: the builtins, and the classes of openai that errors.py imports.  *)
Base(cls) ==
    CASE cls = "RateLimitError" -> "APIStatusError"
      [] cls = "AuthenticationError" -> "APIStatusError"
      [] cls = "BadRequestError" -> "APIStatusError"
      [] cls = "InternalServerError" -> "APIStatusError"
      [] cls = "APIStatusError" -> "APIError"
      [] cls = "APITimeoutError" -> "APIConnectionError"
      [] cls = "APIConnectionError" -> "APIError"
      [] cls = "APIError" -> "Exception"
      [] cls = "ConnectionError" -> "OSError"
      [] cls = "TimeoutError" -> "OSError"
      [] cls = "OSError" -> "Exception"
      [] cls = "JSONDecodeError" -> "ValueError"
      [] cls = "ValueError" -> "Exception"
      [] OTHER -> "Exception"

RECURSIVE IsSubclass(_, _)
IsSubclass(cls, base) ==
    IF cls = base THEN TRUE
    ELSE IF cls = "Exception" THEN FALSE
    ELSE IsSubclass(Base(cls), base)

(* except retryable_exceptions as e *)
IsInstance(e, classes) == \E c \in classes : IsSubclass(e, c)

RetryableDefault == {"Exception"}

RetryableApi ==
    {"RateLimitError", "APIConnectionError", "APITimeoutError", "APIError",
     "ConnectionError", "TimeoutError"}

RetryableNetwork == {"ConnectionError", "TimeoutError", "OSError"}

RetryableExceptions(decorator) ==
    CASE decorator = "retry_on_api_error" -> RetryableApi
      [] decorator = "retry_on_network_error" -> RetryableNetwork
      [] OTHER -> RetryableDefault

AttemptsNoInitial(max_retries) == max_retries

(* range(max_retries + 1) *)
Attempts(max_retries) == max_retries + 1

InRange(attempt, max_retries) == attempt < Attempts(max_retries)

(* The wrapper at entry: last_exception = None, delay = initial_delay.
   calls, failures and outcome record what the decorated function was
   asked and what it answered.                                             *)
Wrapper(decorator, max_retries) ==
    [decorator |-> decorator, max_retries |-> max_retries,
     retryable_exceptions |-> RetryableExceptions(decorator),
     attempt |-> 0, delay |-> 1, slept |-> 0, last_exception |-> "None",
     calls |-> 0, failures |-> 0, outcome |-> "none",
     status |-> "running", raised |-> "None", result |-> "None"]

Decorators == {"retry_with_backoff", "retry_on_api_error", "retry_on_network_error"}

(* What one call of the decorated function may raise. *)
RaisedClasses ==
    {"RateLimitError", "APIConnectionError", "APITimeoutError",
     "InternalServerError", "AuthenticationError", "BadRequestError",
     "ConnectionError", "TimeoutError", "OSError", "ValueError",
     "JSONDecodeError"}

InitRetry ==
    /\ \E d \in Decorators, m \in 0..MaxRetries : retry = Wrapper(d, m)
    /\ pc = "wrapper"
    /\ spec = None
    /\ spec_in = None
    /\ df = << >>
    /\ Locals
    /\ data = None
    /\ parsed = NoParse
    /\ threads = NoThreads
    /\ state = None
    /\ graph = NoGraph
    /\ index = << >>
    /\ work = None

(* return func(...): the decorated function succeeds *)
WrapperReturn ==
    /\ pc = "wrapper"
    /\ retry.status = "running"
    /\ InRange(retry.attempt, retry.max_retries)
    /\ retry' = [retry EXCEPT !.calls = @ + 1, !.outcome = "Success",
                              !.status = "returned", !.result = "Success"]
    /\ pc' = "done"
    /\ UNCHANGED <<threads, data, parsed, state, graph, index, work,
                   strategy_return, equity_curve, returned, validation,
                   df, spec, spec_in, i, position, positions, entry_ok, exit_ok,
                   entry_reasons, exit_reasons, exit_evaluated, current_trade,
                   trades, call, ev>>

(* func raises an exception the except clause does not catch *)
WrapperPropagate ==
    /\ pc = "wrapper"
    /\ retry.status = "running"
    /\ InRange(retry.attempt, retry.max_retries)
    /\ \E e \in RaisedClasses :
          /\ ~IsInstance(e, retry.retryable_exceptions)
          /\ retry' = [retry EXCEPT !.calls = @ + 1, !.outcome = e,
                                    !.status = "raised", !.raised = e]
    /\ pc' = "done"
    /\ UNCHANGED <<threads, data, parsed, state, graph, index, work,
                   strategy_return, equity_curve, returned, validation,
                   df, spec, spec_in, i, position, positions, entry_ok, exit_ok,
                   entry_reasons, exit_reasons, exit_evaluated, current_trade,
                   trades, call, ev>>

(* except retryable_exceptions, attempt < max_retries (lines 40-48): the
   exception is stored and time.sleep(delay) is called                     *)
WrapperRetry ==
    /\ pc = "wrapper"
    /\ retry.status = "running"
    /\ InRange(retry.attempt, retry.max_retries)
    /\ retry.attempt < retry.max_retries
    /\ \E e \in RaisedClasses :
          /\ IsInstance(e, retry.retryable_exceptions)
          /\ retry' = [retry EXCEPT
                  !.calls = @ + 1, !.failures = @ + 1, !.outcome = e,
                  !.last_exception = e,
                  !.status = "sleeping"]
    /\ pc' = "wrapper"
    /\ UNCHANGED <<threads, data, parsed, state, graph, index, work,
                   strategy_return, equity_curve, returned, validation,
                   df, spec, spec_in, i, position, positions, entry_ok, exit_ok,
                   entry_reasons, exit_reasons, exit_evaluated, current_trade,
                   trades, call, ev>>

(* time.sleep(delay) returns (line 48); delay *= backoff_factor (line 49),
   then the next iteration if the range has one                            *)
WrapperSlept ==
    /\ pc = "wrapper"
    /\ retry.status = "sleeping"
    /\ LET more == InRange(retry.attempt + 1, retry.max_retries)
       IN  retry' = [retry EXCEPT
               !.slept = @ + retry.delay,
               !.delay = @ * 2,
               !.attempt = @ + 1,
               !.status = IF more THEN "running" ELSE "raised",
               !.raised = IF more THEN "None" ELSE retry.last_exception]
    /\ pc' = IF retry'.status = "running" THEN "wrapper" ELSE "done"
    /\ UNCHANGED <<threads, data, parsed, state, graph, index, work,
                   strategy_return, equity_curve, returned, validation,
                   df, spec, spec_in, i, position, positions, entry_ok, exit_ok,
                   entry_reasons, exit_reasons, exit_evaluated, current_trade,
                   trades, call, ev>>

(* except retryable_exceptions, attempt = max_retries: no sleep; the range
   is exhausted and the wrapper raises last_exception                      *)
WrapperExhausted ==
    /\ pc = "wrapper"
    /\ retry.status = "running"
    /\ InRange(retry.attempt, retry.max_retries)
    /\ ~(retry.attempt < retry.max_retries)
    /\ \E e \in RaisedClasses :
          /\ IsInstance(e, retry.retryable_exceptions)
          /\ retry' = [retry EXCEPT
                  !.calls = @ + 1, !.failures = @ + 1, !.outcome = e,
                  !.last_exception = e,
                  !.attempt = @ + 1,
                  !.status = "raised",
                  !.raised = e]
    /\ pc' = "done"
    /\ UNCHANGED <<threads, data, parsed, state, graph, index, work,
                   strategy_return, equity_curve, returned, validation,
                   df, spec, spec_in, i, position, positions, entry_ok, exit_ok,
                   entry_reasons, exit_reasons, exit_evaluated, current_trade,
                   trades, call, ev>>

NextRetry ==
    \/ WrapperReturn
    \/ WrapperPropagate
    \/ WrapperRetry
    \/ WrapperSlept
    \/ WrapperExhausted

SpecRetry == InitRetry /\ [][NextRetry]_vars

-----------------------------------------------------------------------------
(* pipeline: the thirteen nodes, the routing functions and the compiled    *)
(* graph, driven by run_pipeline and resume_pipeline.                      *)
(*                                                                         *)
(* state holds the values of the graph's checkpoint; graph holds the node  *)
(* the checkpoint would run next, the call in progress, the nodes run so   *)
(* far (executed: every node started; completed: those that returned;     *)
(* lineage: those started on the way to the present checkpoint), the last  *)
(* checkpoint written while later writes fail behind the stream (saved),   *)
(* whether the stream is on the first step of a resumption, how many       *)
(* times the run was resumed (resume_pipeline or resume_from_checkpoint),  *)
(* whether a resume_pipeline was confirmed (confirmed) and whether a       *)
(* resume_from_checkpoint was (invoked), the function called last (last),  *)
(* and the exception that ended the last call.  returned holds what the    *)
(* last call handed back.                                                  *)

MaxResumes == 2

(* create_initial_state; user_text, model, session_id, timestamp and       *)
(* metrics_log play no part in the control flow and are left out.          *)
CreateInitialState ==
    [spec |-> None, interpretation |-> None, confirmed |-> FALSE,
     validation_result |-> None, data_validation_result |-> None,
     data |-> None, backtest_results |-> None, metrics |-> None,
     trades |-> None, explanation |-> None,
     errors |-> << >>, warnings |-> << >>,
     current_step |-> "initialize", retry_count |-> << >>]

(* handle_node_error *)
HandleNodeError(node_name, st, error, retry_count_key) ==
    [st EXCEPT !.errors = Append(@, node_name \o " failed: " \o error),
               !.retry_count = (retry_count_key :> (Get(@, retry_count_key, 0) + 1)) @@ @]

(* str(e) of the exception an external service raised *)
ServiceError == "Connection error."

InitializeNode(st) == [st EXCEPT !.current_step = "initialize"]

(* translate_node when translate_to_spec returned s *)
TranslateNode(st, s) == [st EXCEPT !.current_step = "translate", !.spec = Some(s)]

(* interpret_node; text is None when explain_interpretation raised *)
InterpretNode(st, text) ==
    LET at == [st EXCEPT !.current_step = "interpret"]
    IN  IF at.spec = None
        THEN [at EXCEPT !.errors = Append(@, "Cannot interpret: spec is None")]
        ELSE IF text # None
        THEN [at EXCEPT !.interpretation = text]
        ELSE [HandleNodeError("interpret_node", at, ServiceError, "interpret")
                 EXCEPT !.warnings = Append(@, "Interpretation generation failed: "
                                                   \o ServiceError),
                        !.interpretation = None]

(* The result object a node stores: ok, errors and warnings. *)
Stored(result) ==
    [ok |-> result.ok, errors |-> result.errors, warnings |-> result.warnings]

ValidateNode(st) ==
    LET at == [st EXCEPT !.current_step = "validate"]
    IN  IF at.spec = None
        THEN [at EXCEPT !.errors = Append(@, "Cannot validate: spec is None")]
        ELSE LET validation_result == Stored(ValidateSpec(Val(at.spec)))
             IN  [at EXCEPT !.validation_result = Some(validation_result),
                            !.errors = @ \o validation_result.errors,
                            !.warnings = @ \o validation_result.warnings]

(* fetch_data_node when load_price_data returned the table d *)
FetchDataNode(st, d) ==
    LET at == [st EXCEPT !.current_step = "fetch_data"]
    IN  IF at.spec = None
        THEN [at EXCEPT !.errors = Append(@, "Cannot fetch data: spec is None")]
        ELSE [at EXCEPT !.data = Some(d)]

(* add_features_node when add_features returned the table d *)
AddFeaturesNode(st, d) ==
    LET at == [st EXCEPT !.current_step = "add_features"]
    IN  IF at.data = None \/ at.spec = None
        THEN [at EXCEPT !.errors = Append(@, "Cannot add features: data or spec is None")]
        ELSE [at EXCEPT !.data = Some(d)]

PreQaNode(st) ==
    LET at == [st EXCEPT !.current_step = "pre_qa"]
    IN  IF at.data = None \/ at.spec = None
        THEN [at EXCEPT !.errors =
                 Append(@, "Cannot run pre-backtest QA: data or spec is None")]
        ELSE LET validation_result ==
                     Stored(ValidateWithData(Val(at.spec), at.data))
             IN  [at EXCEPT !.data_validation_result = Some(validation_result),
                            !.errors = @ \o validation_result.errors,
                            !.warnings = @ \o validation_result.warnings]

(* run_backtest as a function of its arguments, for a specification with   *)
(* standard entry: the positions of bars t.. given the position before t.  *)
RECURSIVE BacktestLoop(_, _, _, _)
BacktestLoop(d, s, t, pos) ==
    IF t = Len(d) THEN << >>
    ELSE LET nxt == NextPosition(pos, EvaluateRules(s.entry_rules, t, d),
                                 BacktestExitLoop(s.exit_rules, t, d, 1).exit_ok)
         IN  <<nxt>> \o BacktestLoop(d, s, t + 1, nxt)

RunBacktest(d, s) ==
    LET pos == BacktestLoop(d, s, 0, 0)
        sr == StrategyReturn(pos, d)
    IN  WithResults(DfCopy(d), pos, sr, EquityCurve(sr)).rows

(* extract_trades as a function of its arguments, standard entry. *)
RECURSIVE TradesLoop(_, _, _, _, _, _)
TradesLoop(d, s, t, pos, cur, out) ==
    IF t = Len(d)
    THEN IF cur # None /\ pos = 1
         THEN Append(out, CloseTrade(Val(cur), EndDateStr(d), ClosePrice(d, Len(d) - 1),
                                     "End of backtest period (still holding)"))
         ELSE out
    ELSE LET std == GetTriggeredRules(s.entry_rules, t, d, TRUE)
             ex == TradesExitLoop(s.exit_rules, t, d, 1)
         IN  IF pos = 0 /\ std.all_passed
             THEN TradesLoop(d, s, t + 1, 1,
                      Some(Trade(DateStr(d, t), ClosePrice(d, t),
                                 EntryReasonText(std.reasons))), out)
             ELSE IF pos = 1 /\ ex.exit_ok /\ cur # None
             THEN TradesLoop(d, s, t + 1, 0, None,
                      Append(out, CloseTrade(Val(cur), DateStr(d, t), ClosePrice(d, t),
                                             ExitReasonText(ex.exit_reasons))))
             ELSE TradesLoop(d, s, t + 1, pos, cur, out)

ExtractTrades(d, s) == TradesLoop(d, s, 0, 0, None, << >>)

BacktestNode(st) ==
    LET at == [st EXCEPT !.current_step = "backtest"]
    IN  IF at.data = None \/ at.spec = None
        THEN [at EXCEPT !.errors = Append(@, "Cannot run backtest: data or spec is None")]
        ELSE [at EXCEPT !.backtest_results = Some(RunBacktest(Val(at.data), Val(at.spec)))]

(* compute_basic_metrics: num_trades, the bars after the first on which    *)
(* the position changed to 1; the floating-point ratios are left out.      *)
ComputeBasicMetrics(rows) ==
    [num_trades |-> Cardinality({k \in 2..Len(rows) :
                        /\ rows[k]["position"] # rows[k - 1]["position"]
                        /\ rows[k]["position"] = 1})]

MetricsNode(st) ==
    LET at == [st EXCEPT !.current_step = "metrics"]
    IN  IF at.backtest_results = None
        THEN [at EXCEPT !.errors =
                 Append(@, "Cannot compute metrics: backtest_results is None")]
        ELSE [at EXCEPT !.metrics = Some(ComputeBasicMetrics(Val(at.backtest_results)))]

TradesNode(st) ==
    LET at == [st EXCEPT !.current_step = "trades"]
    IN  IF at.data = None \/ at.spec = None
        THEN [at EXCEPT !.errors =
                 Append(@, "Cannot extract trades: data or spec is None")]
        ELSE [at EXCEPT !.trades = Some(ExtractTrades(Val(at.data), Val(at.spec)))]

(* explain_node; text is None when summarize_results raised *)
ExplainNode(st, text) ==
    LET at == [st EXCEPT !.current_step = "explain"]
    IN  IF at.spec = None \/ at.metrics = None
        THEN [at EXCEPT !.errors =
                 Append(@, "Cannot generate explanation: spec or metrics is None")]
        ELSE IF text # None
        THEN [at EXCEPT !.explanation = text]
        ELSE [HandleNodeError("explain_node", at, ServiceError, "explain")
                 EXCEPT !.warnings = Append(@, "Explanation generation failed: "
                                                   \o ServiceError),
                        !.explanation = Some("(Explanation unavailable: "
                                                 \o ServiceError \o ")")]

AggregateNode(st) == [st EXCEPT !.current_step = "aggregate"]

PersistNode(st) == [st EXCEPT !.current_step = "persist"]

CheckValidationAlwaysPass(st) == "pass"

(* graph.check_validation *)
CheckValidation(st) ==
    IF st.validation_result = None THEN "fail"
    ELSE IF Val(st.validation_result).ok /\ Len(Val(st.validation_result).errors) = 0
    THEN "pass"
    ELSE "fail"

CheckDataValidationNoWarnings(st) ==
    IF st.data_validation_result = None THEN "fail"
    ELSE IF /\ Val(st.data_validation_result).ok
            /\ Len(Val(st.data_validation_result).errors) = 0
            /\ Len(Val(st.data_validation_result).warnings) = 0
    THEN "pass"
    ELSE "fail"

(* graph.check_data_validation *)
CheckDataValidation(st) ==
    IF st.data_validation_result = None THEN "fail"
    ELSE IF /\ Val(st.data_validation_result).ok
            /\ Len(Val(st.data_validation_result).errors) = 0
    THEN "pass"
    ELSE "fail"

(* Mutant: trades is wired before metrics.                                  *)
EdgeTradesFirst(node, st) ==
    CASE node = "initialize" -> "translate"
      [] node = "translate" -> "interpret"
      [] node = "interpret" -> "validate"
      [] node = "validate" ->
            IF CheckValidation(st) = "pass" THEN "fetch_data" ELSE "END"
      [] node = "fetch_data" -> "add_features"
      [] node = "add_features" -> "pre_qa"
      [] node = "pre_qa" ->
            IF CheckDataValidation(st) = "pass" THEN "backtest" ELSE "END"
      [] node = "backtest" -> "trades"
      [] node = "trades" -> "metrics"
      [] node = "metrics" -> "explain"
      [] node = "explain" -> "aggregate"
      [] node = "aggregate" -> "persist"
      [] OTHER -> "END"

(* create_pipeline: the edges; st is the state the node returned. *)
Edge(node, st) ==
    CASE node = "initialize" -> "translate"
      [] node = "translate" -> "interpret"
      [] node = "interpret" -> "validate"
      [] node = "validate" ->
            IF CheckValidation(st) = "pass" THEN "fetch_data" ELSE "END"
      [] node = "fetch_data" -> "add_features"
      [] node = "add_features" -> "pre_qa"
      [] node = "pre_qa" ->
            IF CheckDataValidation(st) = "pass" THEN "backtest" ELSE "END"
      [] node = "backtest" -> "metrics"
      [] node = "metrics" -> "trades"
      [] node = "trades" -> "explain"
      [] node = "explain" -> "aggregate"
      [] node = "aggregate" -> "persist"
      [] OTHER -> "END"

InterruptBeforeNone == {}

(* compile(..., interrupt_before=["validate"]) *)
InterruptBefore == {"validate"}

(* The stream stops before a node named in interrupt_before, except on the *)
(* first step of a resumption.                                             *)
ShouldInterrupt(g) == g.next \in InterruptBefore /\ ~g.resuming

Streaming(g) == g.call \in {"run_pipeline", "resume_pipeline", "resume_from_checkpoint"}

(* The stream is about to run node. *)
Runs(node) == Streaming(graph) /\ graph.next = node /\ ~ShouldInterrupt(graph)

(* The node returned st: the step is checkpointed, the edge is followed.   *)
Ran(node, st) ==
    /\ state' = st
    /\ graph' = [graph EXCEPT !.next = Edge(node, st),
                              !.executed = Append(@, node),
                              !.lineage = Append(@, node),
                              !.completed = Append(@, node),
                              !.resuming = FALSE]
    /\ UNCHANGED <<threads, data, parsed, retry, index, work, pc,
                   strategy_return, equity_curve, returned, validation,
                   df, spec, spec_in, i, position, positions, entry_ok, exit_ok,
                   entry_reasons, exit_reasons, exit_evaluated, current_trade,
                   trades, call, ev>>

(* The call in progress ends and hands back st; exception names what the   *)
(* stream raised, "none" if nothing.                                       *)
Ended(g, st, exception) ==
    /\ graph' = [g EXCEPT !.call = "returned", !.resuming = FALSE,
                          !.raised = exception]
    /\ returned' = <<st>>
    /\ UNCHANGED <<threads, data, parsed, retry, index, work, pc,
                   strategy_return, equity_curve, validation,
                   df, spec, spec_in, i, position, positions, entry_ok, exit_ok,
                   entry_reasons, exit_reasons, exit_evaluated, current_trade,
                   trades, call, ev>>

(* The exception of a node leaves the call in progress: run_pipeline and   *)
(* resume_pipeline catch it and hand back st; resume_from_checkpoint has   *)
(* no except clause, the exception reaches its caller and nothing is       *)
(* handed back.                                                            *)
Raises(g, st, exception) ==
    IF g.call = "resume_from_checkpoint"
    THEN /\ graph' = [g EXCEPT !.call = "returned", !.resuming = FALSE,
                               !.raised = exception]
         /\ returned' = << >>
         /\ UNCHANGED <<threads, data, parsed, retry, index, work, pc,
                        strategy_return, equity_curve, validation,
                        df, spec, spec_in, i, position, positions, entry_ok, exit_ok,
                        entry_reasons, exit_reasons, exit_evaluated, current_trade,
                        trades, call, ev>>
    ELSE Ended(g, st, exception)

(* The checkpoint a resumption starts from: the last one written, which is *)
(* graph.saved while the writes of a stream failed behind it.              *)
Checkpoint(g, st) ==
    IF g.saved = << >>
    THEN [values |-> st, next |-> g.next, lineage |-> g.lineage]
    ELSE g.saved[1]

(* A crossover of the 1-bar average over a slower one: windows short       *)
(* enough to differ on a history of a few bars.                            *)
Fast(slow_ma, direction) == CrossoverRule(1, slow_ma, direction, None, None)

(* What translate_to_spec may return. *)
PipelineSpecs ==
    {StrategySpec(<<Fast(5, "above")>>, <<Fast(5, "below")>>, FALSE),
     [StrategySpec(<<Fast(2, "above")>>, <<Fast(2, "below")>>, FALSE)
         EXCEPT !.metrics = << >>],
     StrategySpec(<<Cross("above", Unmodified)>>, <<Cross("below", Unmodified)>>, FALSE),
     StrategySpec(<<Cross("above", Unmodified)>>,
                  <<CrossoverRule(50, 50, "below", None, None)>>, FALSE),
     [StrategySpec(<<Fast(5, "above")>>, <<Fast(5, "below")>>, FALSE)
         EXCEPT !.end_date = [year |-> 2024, month |-> 1, day |-> 2]]}

(* The closes load_price_data may return, bar 0 first: up then down, and   *)
(* down then up.                                                           *)
UpDown == <<100, 120, 80, 100>>
DownUp == <<100, 80, 120, 100>>

CloseSeries(cycle, n) == [idx \in 1..n |-> cycle[((idx - 1) % Len(cycle)) + 1]]

PriceRow(closes, idx) ==
    [date |-> [year |-> 2024, month |-> 1, day |-> 2 + idx],
     close |-> closes[idx + 1],
     return |-> PctChange(closes, idx)]

(* The tables load_price_data returns: n bars of prices, no indicators.    *)
PriceTables(n) ==
    {[idx \in 1..n |-> PriceRow(CloseSeries(cycle, n), idx - 1)] : cycle \in {UpDown, DownUp}}

RECURSIVE SumCloses(_, _, _)
SumCloses(d, lo, hi) ==
    IF lo > hi THEN 0 ELSE d[hi]["close"] + SumCloses(d, lo, hi - 1)

(* close.rolling(window=w, min_periods=1).mean() on bar k (1-based): the   *)
(* mean of the last w closes, of all of them while fewer than w exist.     *)
RollingMean(d, k, w) ==
    LET lo == Max(1, k - w + 1)
        total == SumCloses(d, lo, k)
        count == k - lo + 1
    IN  IF total % count = 0 THEN Some(total \div count)
        ELSE Some(Rat(total, count))

(* add_features lines 64-67, for a specification of crossover rules: one   *)
(* ma_<w> column per window the rules name, computed from the closes.      *)
AddFeaturesOf(d, s) ==
    [k \in DOMAIN d |->
        d[k] @@ [col \in {MaCol(w) : w \in RequiredMaWindows(s)} |->
                    RollingMean(d, k,
                        CHOOSE w \in RequiredMaWindows(s) : MaCol(w) = col)]]

InitPipeline ==
    /\ state = None
    /\ graph = NoGraph
    /\ pc = "pipeline"
    /\ spec = None
    /\ spec_in = None
    /\ df = << >>
    /\ Locals
    /\ data = None
    /\ parsed = NoParse
    /\ threads = NoThreads
    /\ retry = NoRetry
    /\ index = << >>
    /\ work = None

(* run_pipeline lines 176-187: the initial state, then graph.invoke *)
RunPipelineCall ==
    /\ pc = "pipeline"
    /\ graph.call = "none"
    /\ \E confirmed \in BOOLEAN :
          state' = [CreateInitialState EXCEPT !.confirmed = confirmed]
    /\ graph' = [graph EXCEPT !.next = "initialize", !.call = "run_pipeline",
                              !.last = "run_pipeline"]
    /\ UNCHANGED <<threads, data, parsed, retry, index, work, pc,
                   strategy_return, equity_curve, returned, validation,
                   df, spec, spec_in, i, position, positions, entry_ok, exit_ok,
                   entry_reasons, exit_reasons, exit_evaluated, current_trade,
                   trades, call, ev>>

Initialize ==
    /\ pc = "pipeline"
    /\ Runs("initialize")
    /\ Ran("initialize", InitializeNode(state))

Translate ==
    /\ pc = "pipeline"
    /\ Runs("translate")
    /\ \E s \in PipelineSpecs : Ran("translate", TranslateNode(state, s))

(* translate_node lines 41-43: the translator raised after its retries;    *)
(* the node re-raises, the step is not checkpointed, and the except clause *)
(* of the caller returns the checkpoint's values (run_pipeline adds the    *)
(* message to the errors of what it returns).                              *)
TranslateRaises ==
    /\ pc = "pipeline"
    /\ Runs("translate")
    /\ UNCHANGED state
    /\ Raises([graph EXCEPT !.executed = Append(@, "translate"),
                         !.lineage = Append(@, "translate")],
             IF graph.call = "run_pipeline"
             THEN [state EXCEPT !.errors = Append(@, ServiceError)]
             ELSE state,
             "translate")

Interpret ==
    /\ pc = "pipeline"
    /\ Runs("interpret")
    /\ \E text \in {None, Some("interpretation")} :
          Ran("interpret", InterpretNode(state, text))

Validate ==
    /\ pc = "pipeline"
    /\ Runs("validate")
    /\ Ran("validate", ValidateNode(state))

FetchData ==
    /\ pc = "pipeline"
    /\ Runs("fetch_data")
    /\ \E d \in PriceTables(NBars) : Ran("fetch_data", FetchDataNode(state, d))

(* fetch_data_node lines 136-138: load_price_data raised (no rows, or the  *)
(* network failed after the retries); the node re-raises.                  *)
FetchDataRaises ==
    /\ pc = "pipeline"
    /\ Runs("fetch_data")
    /\ UNCHANGED state
    /\ Raises([graph EXCEPT !.executed = Append(@, "fetch_data"),
                            !.lineage = Append(@, "fetch_data")], state, "fetch_data")

(* resume_pipeline lines 303-314 where the checkpoint is written within    *)
(* the step: writing the checkpoint of a state that holds a DataFrame      *)
(* fails where the serializer cannot encode it; the stream ends, the       *)
(* checkpoint stays where it was, and what is returned is the node's state *)
(* if the stream had yielded it, else the checkpoint's.  Under             *)
(* resume_from_checkpoint the error leaves graph.invoke.                   *)
StreamCheckpointError ==
    /\ pc = "pipeline"
    /\ Runs("fetch_data")
    /\ UNCHANGED state
    /\ \E st \in {state} \cup {FetchDataNode(state, d) : d \in PriceTables(NBars)} :
          Raises([graph EXCEPT !.executed = Append(@, "fetch_data"),
                               !.lineage = Append(@, "fetch_data"),
                               !.completed = Append(@, "fetch_data")],
                 st, "checkpoint")

(* fetch_data_node where the checkpointer writes behind the stream and its *)
(* serializer cannot encode a DataFrame: the node's state is yielded and   *)
(* the stream goes on (graph.py 298-299, 304-309); the last checkpoint     *)
(* written stays the one before fetch_data.                                *)
FetchDataWriteFails ==
    /\ pc = "pipeline"
    /\ Runs("fetch_data")
    /\ \E d \in PriceTables(NBars) :
          LET st == FetchDataNode(state, d)
          IN  /\ state' = st
              /\ graph' = [graph EXCEPT
                     !.next = Edge("fetch_data", st),
                     !.executed = Append(@, "fetch_data"),
                     !.lineage = Append(@, "fetch_data"),
                     !.completed = Append(@, "fetch_data"),
                     !.resuming = FALSE,
                     !.saved = <<[values |-> state, next |-> "fetch_data",
                                  lineage |-> graph.lineage]>>]
    /\ UNCHANGED <<threads, data, parsed, retry, index, work, pc,
                   strategy_return, equity_curve, returned, validation,
                   df, spec, spec_in, i, position, positions, entry_ok, exit_ok,
                   entry_reasons, exit_reasons, exit_evaluated, current_trade,
                   trades, call, ev>>

(* resume_pipeline lines 310-321, resume_from_checkpoint line 89: the      *)
(* stream reached END and the failed checkpoint write is raised as it is   *)
(* left.  resume_pipeline keeps the last state the stream yielded and      *)
(* returns it; graph.invoke under resume_from_checkpoint raises.           *)
StreamLeftCheckpointError ==
    /\ pc = "pipeline"
    /\ Streaming(graph)
    /\ graph.next = "END"
    /\ graph.saved # << >>
    /\ UNCHANGED state
    /\ Raises(graph, state, "checkpoint")

AddFeatures ==
    /\ pc = "pipeline"
    /\ Runs("add_features")
    /\ Ran("add_features",
           AddFeaturesNode(state, AddFeaturesOf(Val(state.data), Val(state.spec))))

PreQa ==
    /\ pc = "pipeline"
    /\ Runs("pre_qa")
    /\ Ran("pre_qa", PreQaNode(state))

Backtest ==
    /\ pc = "pipeline"
    /\ Runs("backtest")
    /\ Ran("backtest", BacktestNode(state))

Metrics ==
    /\ pc = "pipeline"
    /\ Runs("metrics")
    /\ Ran("metrics", MetricsNode(state))

Trades ==
    /\ pc = "pipeline"
    /\ Runs("trades")
    /\ Ran("trades", TradesNode(state))

Explain ==
    /\ pc = "pipeline"
    /\ Runs("explain")
    /\ \E text \in {None, Some("explanation")} :
          Ran("explain", ExplainNode(state, text))

Aggregate ==
    /\ pc = "pipeline"
    /\ Runs("aggregate")
    /\ Ran("aggregate", AggregateNode(state))

Persist ==
    /\ pc = "pipeline"
    /\ Runs("persist")
    /\ Ran("persist", PersistNode(state))

(* run_pipeline lines 190-201: invoke came back at the interrupt; the      *)
(* checkpoint has a next node and its values are returned.                 *)
RunPipelineReturn ==
    /\ pc = "pipeline"
    /\ graph.call = "run_pipeline"
    /\ ShouldInterrupt(graph)
    /\ UNCHANGED state
    /\ Ended(graph, state, "none")

(* resume_pipeline lines 266-294 with confirmed=True: the flag is written  *)
(* to the checkpoint and graph.stream(None, config) continues from it.     *)
ResumePipelineCall ==
    /\ pc = "pipeline"
    /\ graph.call = "returned"
    /\ graph.resumes < MaxResumes
    /\ state' = [Checkpoint(graph, state).values EXCEPT !.confirmed = TRUE]
    /\ graph' = [graph EXCEPT !.call = "resume_pipeline", !.resuming = TRUE,
                              !.next = Checkpoint(graph, state).next,
                              !.lineage = Checkpoint(graph, state).lineage,
                              !.saved = << >>,
                              !.resumes = @ + 1, !.confirmed = TRUE,
                              !.raised = "none", !.last = "resume_pipeline"]
    /\ UNCHANGED <<threads, data, parsed, retry, index, work, pc,
                   strategy_return, equity_curve, returned, validation,
                   df, spec, spec_in, i, position, positions, entry_ok, exit_ok,
                   entry_reasons, exit_reasons, exit_evaluated, current_trade,
                   trades, call, ev>>

(* resume_pipeline lines 266-283, 353-355 with confirmed=False: the flag   *)
(* is written and the checkpoint's values are returned.                    *)
ResumePipelineDeclined ==
    /\ pc = "pipeline"
    /\ graph.call = "returned"
    /\ graph.resumes < MaxResumes
    /\ state' = [Checkpoint(graph, state).values EXCEPT !.confirmed = FALSE]
    /\ Ended([graph EXCEPT !.resumes = @ + 1, !.last = "resume_pipeline",
                           !.next = Checkpoint(graph, state).next,
                           !.lineage = Checkpoint(graph, state).lineage,
                           !.saved = << >>],
             state', "none")

(* resume_pipeline lines 316-321 (325-334 when no node ran): the stream    *)
(* is over, at END or at the interrupt, and the last state is returned.    *)
ResumePipelineReturn ==
    /\ pc = "pipeline"
    /\ graph.call = "resume_pipeline"
    /\ graph.next = "END" \/ ShouldInterrupt(graph)
    /\ graph.saved = << >>
    /\ UNCHANGED state
    /\ Ended(graph, state, "none")

(* checkpoints.resume_from_checkpoint lines 81-90 with confirmed=True: the *)
(* flag is written to the checkpoint and graph.invoke(None, config)        *)
(* continues from it.                                                      *)
ResumeFromCheckpointCall ==
    /\ pc = "pipeline"
    /\ graph.call = "returned"
    /\ graph.resumes < MaxResumes
    /\ state' = [Checkpoint(graph, state).values EXCEPT !.confirmed = TRUE]
    /\ graph' = [graph EXCEPT !.call = "resume_from_checkpoint", !.resuming = TRUE,
                              !.next = Checkpoint(graph, state).next,
                              !.lineage = Checkpoint(graph, state).lineage,
                              !.saved = << >>,
                              !.resumes = @ + 1, !.invoked = TRUE,
                              !.raised = "none", !.last = "resume_from_checkpoint"]
    /\ UNCHANGED <<threads, data, parsed, retry, index, work, pc,
                   strategy_return, equity_curve, returned, validation,
                   df, spec, spec_in, i, position, positions, entry_ok, exit_ok,
                   entry_reasons, exit_reasons, exit_evaluated, current_trade,
                   trades, call, ev>>

(* resume_from_checkpoint lines 91-95 with confirmed=False: nothing is     *)
(* written and the checkpoint's values are returned.                       *)
ResumeFromCheckpointDeclined ==
    /\ pc = "pipeline"
    /\ graph.call = "returned"
    /\ graph.resumes < MaxResumes
    /\ state' = Checkpoint(graph, state).values
    /\ Ended([graph EXCEPT !.resumes = @ + 1, !.last = "resume_from_checkpoint",
                           !.next = Checkpoint(graph, state).next,
                           !.lineage = Checkpoint(graph, state).lineage,
                           !.saved = << >>],
             state', "none")

(* resume_from_checkpoint lines 89-90: graph.invoke came back, at END or   *)
(* at the interrupt, and its result is returned.                           *)
ResumeFromCheckpointReturn ==
    /\ pc = "pipeline"
    /\ graph.call = "resume_from_checkpoint"
    /\ graph.next = "END" \/ ShouldInterrupt(graph)
    /\ graph.saved = << >>
    /\ UNCHANGED state
    /\ Ended(graph, state, "none")

NextPipeline ==
    \/ RunPipelineCall
    \/ Initialize
    \/ Translate
    \/ TranslateRaises
    \/ Interpret
    \/ Validate
    \/ FetchData
    \/ FetchDataRaises
    \/ StreamCheckpointError
    \/ FetchDataWriteFails
    \/ StreamLeftCheckpointError
    \/ AddFeatures
    \/ PreQa
    \/ Backtest
    \/ Metrics
    \/ Trades
    \/ Explain
    \/ Aggregate
    \/ Persist
    \/ RunPipelineReturn
    \/ ResumePipelineCall
    \/ ResumePipelineDeclined
    \/ ResumePipelineReturn
    \/ ResumeFromCheckpointCall
    \/ ResumeFromCheckpointDeclined
    \/ ResumeFromCheckpointReturn

SpecPipeline == InitPipeline /\ [][NextPipeline]_vars

-----------------------------------------------------------------------------
(* run_backtest and extract_trades on a table that lacks an indicator      *)
(* column a rule refers to: the caller built the features for other        *)
(* windows.                                                                *)

Without(d, cols) == [k \in DOMAIN d |-> [c \in DOMAIN d[k] \ cols |-> d[k][c]]]

RuleColumns(rule) ==
    IF rule.type = "crossover"
    THEN {MaCol(rule.fast_ma), MaCol(rule.slow_ma)}
    ELSE {RvCol(rule.window), MedCol(rule.window)}

MissingShapes ==
    {<< <<Some(2), Some(1)>>, <<Some(1), Some(2)>> >>,
     << <<Some(2), Some(1)>>, <<Some(2), Some(1)>> >>,
     << <<Some(1), Some(2)>>, <<Some(2), Some(1)>> >>}

InitMissing ==
    /\ \E s \in Strategies :
         /\ spec = s
         /\ spec_in = s
         /\ \E full \in Tables(s, NBars, MissingShapes) :
              \E k \in DOMAIN s.entry_rules :
                \E c \in RuleColumns(s.entry_rules[k]) :
                   df = Without(full, {c})
    /\ pc = "run_backtest"
    /\ Locals
    /\ Outside
    /\ index = RangeIndex(Len(df))
    /\ work = DfCopy(df)

SpecMissing == InitMissing /\ [][Next]_vars

-----------------------------------------------------------------------------
(* validate_spec and validate_with_data on specifications whose entry      *)
(* rules compare the same moving averages (or the same volatility          *)
(* threshold) in both directions, with every temporal modifier.            *)

OpposedSpecs ==
    {StrategySpec(<<Cross("above", m1), Cross("below", m2)>>,
                  <<Cross("below", Unmodified)>>, sq) :
         m1 \in Modifiers, m2 \in Modifiers, sq \in BOOLEAN}
      \cup {StrategySpec(<<Vol("below", m1), Vol("above", m2)>>,
                         <<Vol("above", Unmodified)>>, sq) :
         m1 \in Modifiers, m2 \in Modifiers, sq \in BOOLEAN}

InitOpposed ==
    /\ spec \in OpposedSpecs
    /\ df \in Tables(spec, NBars, PairShapes)
    /\ spec_in = spec
    /\ pc = "validate"
    /\ Locals
    /\ Outside
    /\ index = RangeIndex(Len(df))
    /\ work = None

SpecOpposed == InitOpposed /\ [][NextValidate]_vars

-----------------------------------------------------------------------------
(* run_backtest as a function of its arguments, in either entry mode.      *)

(* run_backtest lines 315-318: the entry condition on bar t of d.          *)
EntryOk(s, t, d) ==
    IF s.entry_sequential THEN EvaluateSequentialEntry(s.entry_rules, t, d)
    ELSE EvaluateRules(s.entry_rules, t, d)

(* run_backtest lines 313-338: the positions of bars t.. given the         *)
(* position before t.                                                      *)
RECURSIVE PositionsFrom(_, _, _, _)
PositionsFrom(d, s, t, pos) ==
    IF t >= Len(d) THEN << >>
    ELSE LET nxt == NextPosition(pos, EntryOk(s, t, d),
                                 BacktestExitLoop(s.exit_rules, t, d, 1).exit_ok)
         IN  <<nxt>> \o PositionsFrom(d, s, t + 1, nxt)

Positions(d, s) == PositionsFrom(d, s, 0, 0)

-----------------------------------------------------------------------------
(* Two threads run the loop of run_backtest at the same time on one        *)
(* StrategySpec with entry_sequential set and on the same table.  The rule *)
(* objects (spec) are shared; each thread has its own locals in threads.   *)
(* A step of a thread holds at most one read or one write of a rule's      *)
(* lookahead_days, and the other thread may run between any two steps.     *)
(* No rule of these specifications declares duration_days, so every read   *)
(* and write of that field finds and leaves None; it is taken in the step  *)
(* of the neighbouring access to lookahead_days.  A thread's call has the  *)
(* stages                                                                  *)
(*   "enter", "enter_read"   _evaluate_sequential_entry at lines 279, 285  *)
(*   "call", "saved", "stripped"   _evaluate_rule_at_index before lines    *)
(*                           239, 241, 243 (248, 250, 252)                 *)
(*   "lookahead_seen"        the evaluator between lines 183 and 184       *)
(*   "evaluated"             _evaluate_rule_at_index before line 244 (253) *)
(* and result holds what the evaluator returned.                           *)

Thread ==
    [pc |-> "loop", i |-> 0, position |-> 0, positions |-> << >>,
     entry_ok |-> FALSE, call |-> Idle, result |-> FALSE]

ThreadStrategies ==
    {StrategySpec(<<Cross("above", Unmodified), Vol("below", m)>>,
                  <<Cross("below", Unmodified)>>, TRUE) :
        m \in {Unmodified, <<Some(1), None>>}}

ThreadShapes ==
    {<< <<Some(2), Some(1)>>, <<Some(1), Some(2)>> >>,
     << <<Some(2), Some(1)>>, <<Some(2), Some(1)>> >>,
     << <<Some(1), Some(2)>>, <<Some(1), Some(2)>> >>}

InitThreads ==
    /\ \E s \in ThreadStrategies :
         /\ spec = s
         /\ spec_in = s
         /\ df \in Tables(s, NBars, ThreadShapes)
    /\ pc = "threads"
    /\ Locals
    /\ data = None
    /\ retry = NoRetry
    /\ state = None
    /\ graph = NoGraph
    /\ parsed = NoParse
    /\ index = RangeIndex(Len(df))
    /\ work = None
    /\ threads = [t \in 1..2 |-> Thread]

ThreadFrame ==
    UNCHANGED <<data, parsed, retry, state, graph, index, work,
                strategy_return, equity_curve, returned, validation,
                df, spec_in, pc, i, position, positions, entry_ok, exit_ok,
                entry_reasons, exit_reasons, exit_evaluated, current_trade,
                trades, call, ev>>

(* _evaluate_sequential_entry reaches rule k (the `for` of line 278), or   *)
(* returns True after the last rule (line 297).                            *)
ThreadEnterRule(th, k) ==
    IF k > Len(spec.entry_rules)
    THEN [th EXCEPT !.entry_ok = TRUE, !.call = EntryDone]
    ELSE [th EXCEPT !.call = [Idle EXCEPT !.stage = "enter", !.phase = "seq", !.k = k]]

(* _evaluate_sequential_entry returns False (lines 276, 282, 295).         *)
ThreadEntryFails(th) == [th EXCEPT !.entry_ok = FALSE, !.call = EntryDone]

(* _evaluate_sequential_entry lines 267-274, up to the call on the first   *)
(* rule.                                                                   *)
ThreadSeqEntryBegin ==
    /\ pc = "threads"
    /\ \E t \in DOMAIN threads :
         /\ threads[t].pc = "loop"
         /\ threads[t].i < Len(df)
         /\ threads[t].call.stage = "idle"
         /\ threads' =
              IF Len(spec.entry_rules) = 0
              THEN [threads EXCEPT ![t] = ThreadEntryFails(@)]
              ELSE [threads EXCEPT ![t].call = Probe("seq", 1, 0, None)]
    /\ UNCHANGED spec
    /\ ThreadFrame

(* _evaluate_sequential_entry line 279 in thread t: the test of the shared *)
(* rule's lookahead_days.                                                  *)
ThreadSeqEntryTest ==
    /\ pc = "threads"
    /\ \E t \in DOMAIN threads :
         /\ threads[t].call.stage = "enter"
         /\ threads' =
              IF spec.entry_rules[threads[t].call.k].lookahead_days = None
              THEN [threads EXCEPT ![t].call = Probe("seq", threads[t].call.k, 0, None)]
              ELSE [threads EXCEPT ![t].call.stage = "enter_read"]
    /\ UNCHANGED spec
    /\ ThreadFrame

(* _evaluate_sequential_entry lines 285-290 in thread t: the field is read *)
(* again; if the other thread has set it to None meanwhile, line 287 adds  *)
(* 1 to None and the TypeError ends the thread's run_backtest.             *)
ThreadSeqEntryRead ==
    /\ pc = "threads"
    /\ \E t \in DOMAIN threads :
         /\ threads[t].call.stage = "enter_read"
         /\ LET k == threads[t].call.k
                lookahead == spec.entry_rules[k].lookahead_days
            IN  threads' =
                  IF lookahead = None
                  THEN [threads EXCEPT ![t].pc = "raised", ![t].call = Idle]
                  ELSE IF Val(lookahead) + 1 <= 0 \/ threads[t].i >= Len(df)
                  THEN [threads EXCEPT ![t] = ThreadEntryFails(@)]
                  ELSE [threads EXCEPT ![t].call = Probe("seq", k, 0, lookahead)]
    /\ UNCHANGED spec
    /\ ThreadFrame

(* _evaluate_rule_at_index lines 239-240 (248-249) in thread t: the saved  *)
(* values are whatever the shared rule holds at this moment.               *)
ThreadRuleAtIndexSave ==
    /\ pc = "threads"
    /\ \E t \in DOMAIN threads :
         /\ threads[t].call.stage = "call"
         /\ LET rule == spec.entry_rules[threads[t].call.k]
            IN  threads' = [threads EXCEPT
                    ![t].call.stage = "saved",
                    ![t].call.original_lookahead = rule.lookahead_days,
                    ![t].call.original_duration = rule.duration_days]
    /\ UNCHANGED spec
    /\ ThreadFrame

(* _evaluate_rule_at_index lines 241-242 (250-251) in thread t.            *)
ThreadRuleAtIndexStrip ==
    /\ pc = "threads"
    /\ \E t \in DOMAIN threads :
         /\ threads[t].call.stage = "saved"
         /\ threads' = [threads EXCEPT ![t].call.stage = "stripped"]
         /\ spec' = [spec EXCEPT
                !.entry_rules[threads[t].call.k].lookahead_days = None,
                !.entry_rules[threads[t].call.k].duration_days = None]
    /\ ThreadFrame

(* The evaluator called at line 243 (252) in thread t, up to its test of   *)
(* lookahead_days (lines 91, 116 and 160, 183): a rule that shows a        *)
(* duration is evaluated on it, a rule that shows neither modifier on the  *)
(* bar alone.                                                              *)
ThreadEvaluatorTest ==
    /\ pc = "threads"
    /\ \E t \in DOMAIN threads :
         /\ threads[t].call.stage = "stripped"
         /\ LET c == threads[t].call
                rule == spec.entry_rules[c.k]
            IN  threads' =
                  IF rule.duration_days = None /\ rule.lookahead_days # None
                  THEN [threads EXCEPT ![t].call.stage = "lookahead_seen"]
                  ELSE [threads EXCEPT
                           ![t].call.stage = "evaluated",
                           ![t].result =
                               EvaluateRule([rule EXCEPT !.lookahead_days = None],
                                            threads[t].i + c.offset, df)]
    /\ UNCHANGED spec
    /\ ThreadFrame

(* The evaluator lines 117-132 (184-201) in thread t: lookahead_days is    *)
(* read again for the local `lookahead`; if it is None by now, line 118    *)
(* (185) adds 1 to None and the TypeError ends the thread's run_backtest   *)
(* before _evaluate_rule_at_index restores anything.                       *)
ThreadEvaluatorRead ==
    /\ pc = "threads"
    /\ \E t \in DOMAIN threads :
         /\ threads[t].call.stage = "lookahead_seen"
         /\ LET c == threads[t].call
                rule == spec.entry_rules[c.k]
            IN  threads' =
                  IF rule.lookahead_days = None
                  THEN [threads EXCEPT ![t].pc = "raised", ![t].call = Idle]
                  ELSE [threads EXCEPT
                           ![t].call.stage = "evaluated",
                           ![t].result = EvaluateRule(rule, threads[t].i + c.offset, df)]
    /\ UNCHANGED spec
    /\ ThreadFrame

(* _evaluate_rule_at_index lines 244-246 (253-255) in thread t: the        *)
(* thread's saved values are written back and the result is returned;      *)
(* _evaluate_sequential_entry goes on with its locals (lines 275-276,      *)
(* 280-282, 288-295) up to its next look at a rule.                        *)
ThreadRuleAtIndexReturn ==
    /\ pc = "threads"
    /\ \E t \in DOMAIN threads :
         /\ threads[t].call.stage = "evaluated"
         /\ LET th == threads[t]
                c == th.call
            IN  /\ spec' = [spec EXCEPT
                       !.entry_rules[c.k].lookahead_days = c.original_lookahead,
                       !.entry_rules[c.k].duration_days = c.original_duration]
                /\ threads' =
                     IF c.k = 1 \/ c.lookahead = None
                     THEN IF th.result
                          THEN [threads EXCEPT ![t] = ThreadEnterRule(th, c.k + 1)]
                          ELSE [threads EXCEPT ![t] = ThreadEntryFails(th)]
                     ELSE IF th.result
                     THEN [threads EXCEPT ![t] = ThreadEnterRule(th, c.k + 1)]
                     ELSE IF \/ c.offset + 1 >= Val(c.lookahead) + 1
                             \/ th.i + c.offset + 1 >= Len(df)
                     THEN [threads EXCEPT ![t] = ThreadEntryFails(th)]
                     ELSE [threads EXCEPT
                              ![t].call = Probe("seq", c.k, c.offset + 1, c.lookahead)]
    /\ ThreadFrame

(* run_backtest lines 320-338 in thread t.                                 *)
ThreadRunBacktestStep ==
    /\ pc = "threads"
    /\ \E t \in DOMAIN threads :
         /\ threads[t].pc = "loop"
         /\ threads[t].call.stage = "entry_done"
         /\ LET th == threads[t]
                ex == BacktestExitLoop(spec.exit_rules, th.i, df, 1)
                nxt == NextPosition(th.position, th.entry_ok, ex.exit_ok)
            IN  threads' = [threads EXCEPT ![t].position = nxt,
                                           ![t].positions = Append(@, nxt),
                                           ![t].i = @ + 1,
                                           ![t].call = Idle]
    /\ UNCHANGED spec
    /\ ThreadFrame

(* run_backtest lines 340-346 in thread t.                                 *)
ThreadRunBacktestReturn ==
    /\ pc = "threads"
    /\ \E t \in DOMAIN threads :
         /\ threads[t].pc = "loop"
         /\ threads[t].i = Len(df)
         /\ threads' = [threads EXCEPT ![t].pc = "done"]
    /\ UNCHANGED spec
    /\ ThreadFrame

NextThreads ==
    \/ ThreadSeqEntryBegin
    \/ ThreadSeqEntryTest
    \/ ThreadSeqEntryRead
    \/ ThreadRuleAtIndexSave
    \/ ThreadRuleAtIndexStrip
    \/ ThreadEvaluatorTest
    \/ ThreadEvaluatorRead
    \/ ThreadRuleAtIndexReturn
    \/ ThreadRunBacktestStep
    \/ ThreadRunBacktestReturn

SpecThreads == InitThreads /\ [][NextThreads]_vars

-----------------------------------------------------------------------------
(* Direct calls: run_backtest, extract_trades, and compute_basic_metrics   *)
(* on the table run_backtest returned.  The caller's table may begin on    *)
(* any bar of a longer history, so the entry condition may hold on bar 0.  *)

MetricsResult(m) ==
    [fn |-> "compute_basic_metrics", position |-> << >>, strategy_return |-> << >>,
     equity_curve |-> << >>, trades |-> << >>, metrics |-> m]

(* The table run_backtest returned: the caller's rows and the three result *)
(* columns.                                                                *)
ResultRows(d, result) ==
    WithResults(DfCopy(d), result.position, result.strategy_return,
                result.equity_curve).rows

MetricsShapes ==
    {<< <<Some(2), Some(1)>>, <<NaN, NaN>> >>,
     << <<Some(1), Some(2)>>, <<NaN, NaN>> >>,
     << <<NaN, Some(1)>>, <<NaN, NaN>> >>}

InitMetrics ==
    /\ \E sq \in BOOLEAN :
         /\ spec = StrategySpec(<<Cross("above", Unmodified)>>,
                                <<Cross("below", Unmodified)>>, sq)
         /\ spec_in = spec
         /\ df \in Tables(spec, NBars + 1, MetricsShapes)
    /\ pc = "run_backtest"
    /\ Locals
    /\ Outside
    /\ index = RangeIndex(Len(df))
    /\ work = DfCopy(df)

(* compute_basic_metrics(run_backtest(df, spec)) *)
ComputeBasicMetricsCall ==
    /\ pc = "done"
    /\ pc' = "measured"
    /\ returned' = Append(returned,
           MetricsResult(ComputeBasicMetrics(ResultRows(df, returned[1]))))
    /\ UNCHANGED <<threads, data, parsed, retry, state, graph, index, work,
                   strategy_return, equity_curve, validation,
                   df, spec, spec_in, i, position, positions, entry_ok, exit_ok,
                   entry_reasons, exit_reasons, exit_evaluated, current_trade,
                   trades, call, ev>>

NextMetrics ==
    \/ Next
    \/ ComputeBasicMetricsCall

SpecMetrics == InitMetrics /\ [][NextMetrics]_vars

-----------------------------------------------------------------------------
(* run_backtest, extract_trades and then validate_with_data, all on the    *)
(* same specification and the same non-empty table.                        *)

DryRunShapes ==
    {<< <<Some(2), Some(1)>>, <<Some(1), Some(2)>> >>,
     << <<Some(1), Some(2)>>, <<Some(1), Some(2)>> >>,
     << <<Some(2), Some(1)>>, <<Some(2), Some(1)>> >>,
     << <<Some(2), Some(1)>>, <<NaN, Some(2)>> >>}

InitDryRun ==
    /\ \E s \in Strategies :
         /\ spec = s
         /\ spec_in = s
         /\ df \in Tables(s, NBars, DryRunShapes)
    /\ pc = "run_backtest"
    /\ Locals
    /\ Outside
    /\ index = RangeIndex(Len(df))
    /\ work = DfCopy(df)

(* validate_with_data(spec, df) once both core calls have returned *)
ValidateWithDataAfter ==
    /\ pc = "done"
    /\ Validated("validate_with_data", "table", ValidateWithData(spec, Some(df)))

NextDryRun ==
    \/ Next
    \/ ValidateWithDataAfter

SpecDryRun == InitDryRun /\ [][NextDryRun]_vars

-----------------------------------------------------------------------------
(* Direct calls of the evaluators on rules whose modifier is any integer   *)
(* _parse_rule and validate_spec let through: neither looks at its sign.   *)

(* <<lookahead_days, duration_days>>: neither, or one of them, of any sign. *)
SignedModifiers ==
    {<<None, None>>}
        \cup {<<Some(l), None>> : l \in (-1)..MaxLookahead}
        \cup {<<None, Some(n)>> : n \in (-1)..MaxDuration}

SignedRules ==
    {Cross(dr, m) : dr \in {"above", "below"}, m \in SignedModifiers}
      \cup {Vol(rl, m) : rl \in {"below", "above"}, m \in SignedModifiers}

(* The rule as _parse_rule returns it from its dict.                       *)
Parsed(rule) == ParseRule(RuleToDict(rule))

InitModes ==
    /\ \E r \in SignedRules, x \in ExitLists :
         /\ Parsed(r).raised = "none"
         /\ spec = StrategySpec(<<Parsed(r).result>>, x, FALSE)
         /\ ValidateSpec(spec).ok
         /\ df \in Tables(spec, NBars, PairShapes)
    /\ spec_in = spec
    /\ pc = "evaluate"
    /\ Locals
    /\ Outside
    /\ index = RangeIndex(Len(df))
    /\ work = None

SpecModes == InitModes /\ [][NextEval]_vars

-----------------------------------------------------------------------------
(* A caller that runs run_backtest on one table and then, with the same    *)
(* specification, on a second table of the same length.  While the core    *)
(* runs on one table, data holds the caller's other table.                 *)

FutureShapes ==
    {<< <<Some(2), Some(1)>>, <<Some(1), Some(2)>> >>,
     << <<Some(1), Some(2)>>, <<Some(2), Some(1)>> >>,
     << <<Some(2), Some(1)>>, <<Some(2), Some(1)>> >>}

(* No modifier, a lookahead of any sign _parse_rule lets through, or the   *)
(* longest duration.                                                       *)
FutureModifiers ==
    {Unmodified, <<Some(-1), None>>, <<Some(1), None>>, <<None, Some(MaxDuration)>>}

FutureStrategies ==
    {StrategySpec(<<Cross("above", Unmodified), Vol("below", m)>>,
                  <<Cross("below", x)>>, sq) :
         m \in FutureModifiers,
         x \in {Unmodified, <<Some(-1), None>>, <<Some(1), None>>},
         sq \in BOOLEAN}

InitFuture ==
    /\ spec \in FutureStrategies
    /\ spec_in = spec
    /\ df \in Tables(spec, NBars, FutureShapes)
    /\ pc = "run_backtest"
    /\ Locals
    /\ data \in {Some(d) : d \in Tables(spec, NBars, FutureShapes)}
    /\ parsed = NoParse
    /\ threads = NoThreads
    /\ retry = NoRetry
    /\ state = None
    /\ graph = NoGraph
    /\ index = RangeIndex(Len(df))
    /\ work = DfCopy(df)

(* run_backtest lines 308-312, called on the caller's other table.         *)
RunBacktestOnOther ==
    /\ pc = "backtest_returned"
    /\ Len(returned) = 1
    /\ data # None
    /\ df' = Val(data)
    /\ data' = Some(df)
    /\ index' = RangeIndex(Len(Val(data)))
    /\ pc' = "run_backtest"
    /\ i' = 0
    /\ position' = 0
    /\ positions' = << >>
    /\ work' = DfCopy(Val(data))
    /\ UNCHANGED <<threads, parsed, retry, state, graph,
                   strategy_return, equity_curve, returned, validation,
                   spec, spec_in, entry_ok, exit_ok, entry_reasons,
                   exit_reasons, exit_evaluated, current_trade, trades, call, ev>>

NextFuture ==
    \/ Next
    \/ RunBacktestOnOther

SpecFuture == InitFuture /\ [][NextFuture]_vars

-----------------------------------------------------------------------------
(* What the specification says a rule means, stated on the table alone.    *)

CompareAbove(rule) ==
    IF rule.type = "crossover" THEN rule.direction = "above"
    ELSE rule.relation = "above"

Compared(rule, row) ==
    IF rule.type = "crossover"
    THEN <<row[MaCol(rule.fast_ma)], row[MaCol(rule.slow_ma)]>>
    ELSE <<row[RvCol(rule.window)], row[MedCol(rule.window)]>>

BothPresent(rule, t, d) ==
    Compared(rule, Iloc(d, t))[1] # NaN /\ Compared(rule, Iloc(d, t))[2] # NaN

(* The instantaneous condition of rule on bar t.                           *)
HoldsOn(rule, t, d) ==
    LET c == Compared(rule, Iloc(d, t))
    IN  /\ c[1] # NaN
        /\ c[2] # NaN
        /\ IF CompareAbove(rule) THEN c[1][1] > c[2][1] ELSE c[1][1] < c[2][1]

(* It held on each of the n bars ending at t, all of them in the table.    *)
SustainedAt(rule, t, d, n) ==
    /\ t >= n - 1
    /\ \A x \in (t - n + 1)..t : HoldsOn(rule, x, d)

(* It holds on some bar of the table in [t, t + l].                        *)
WithinAt(rule, t, d, l) ==
    \E x \in t..(t + l) : x < Len(d) /\ HoldsOn(rule, x, d)

(* The rule in its own temporal mode.                                      *)
ModeHolds(rule, t, d) ==
    IF rule.duration_days # None THEN SustainedAt(rule, t, d, rule.duration_days[1])
    ELSE IF rule.lookahead_days # None THEN WithinAt(rule, t, d, rule.lookahead_days[1])
    ELSE HoldsOn(rule, t, d)

StandardEntryHolds(rules, t, d) ==
    \A k \in DOMAIN rules : ModeHolds(rules[k], t, d)

SequentialEntryHolds(rules, a, d) ==
    /\ Len(rules) > 0
    /\ HoldsOn(rules[1], a, d)
    /\ \A k \in 2..Len(rules) :
         IF rules[k].lookahead_days = None THEN HoldsOn(rules[k], a, d)
         ELSE WithinAt(rules[k], a, d, rules[k].lookahead_days[1])

EntryHolds(t) ==
    IF spec_in.entry_sequential
    THEN SequentialEntryHolds(spec_in.entry_rules, t, df)
    ELSE StandardEntryHolds(spec_in.entry_rules, t, df)

TrueExits(t) ==
    {k \in DOMAIN spec_in.exit_rules : ModeHolds(spec_in.exit_rules[k], t, df)}

ExitHolds(t) == TrueExits(t) # {}

Least(S) == CHOOSE x \in S : \A y \in S : x <= y

(* The position before bar t (1-based in positions) was recorded.          *)
Before(t) == IF t = 1 THEN 0 ELSE positions[t - 1]

Opens == {t \in 1..Len(positions) : Before(t) = 0 /\ positions[t] = 1}
Closes == {t \in 1..Len(positions) : Before(t) = 1 /\ positions[t] = 0}

EvRule == spec_in.entry_rules[ev.k]
EvSingle == ev.fn \in {"_evaluate_crossover", "_evaluate_vol_filter"}

-----------------------------------------------------------------------------
(* Claims *)

\* C1: run_backtest starts FLAT, records only 0 or 1, and the recorded
\* position changes on a bar only as 0->1 where the entry condition
\* (standard AND, or sequential) holds or as 1->0 where some exit rule holds;
\* and when FLAT with the entry condition true it does open, when LONG with
\* an exit rule true it does close.
C1_PositionTransitions ==
    /\ (pc = "run_backtest" /\ i = 0) => position = 0
    /\ \A t \in 1..Len(positions) :
         /\ positions[t] \in {0, 1}
         /\ positions[t] # Before(t) =>
              \/ Before(t) = 0 /\ positions[t] = 1 /\ EntryHolds(t - 1)
              \/ Before(t) = 1 /\ positions[t] = 0 /\ ExitHolds(t - 1)
         /\ (Before(t) = 0 /\ EntryHolds(t - 1)) => positions[t] = 1
         /\ (Before(t) = 1 /\ ExitHolds(t - 1)) => positions[t] = 0

C1_Witness ==
    /\ pc = "backtest_returned"
    /\ spec_in.entry_sequential
    /\ Opens # {}
    /\ Closes # {}
    /\ \E t \in 1..Len(positions) : Before(t) = 1 /\ positions[t] = 1 /\ EntryHolds(t - 1)

\* C2: extract_trades agrees with run_backtest: the k-th trade is entered
\* on the bar of the k-th 0->1 change of the position and exited on the
\* bar of the next 1->0 change, or on the final bar if there is none, and
\* there are as many trades as 0->1 changes.
C2_TradesFollowPositions ==
    pc = "done" =>
        /\ Len(trades) = Cardinality(Opens)
        /\ \A k \in 1..Len(trades) :
             LET open == CHOOSE t \in Opens : Cardinality({u \in Opens : u < t}) = k - 1
                 later == {u \in Closes : u > open}
                 close == IF later # {} THEN Least(later) ELSE Len(positions)
             IN  /\ trades[k].entry_date = DateStr(df, open - 1)
                 /\ trades[k].entry_price = ClosePrice(df, open - 1)
                 /\ trades[k].exit_date = Some(DateStr(df, close - 1))
                 /\ trades[k].exit_price = Some(ClosePrice(df, close - 1))

C2_Witness ==
    /\ pc = "done"
    /\ Len(trades) = 2
    /\ Cardinality(Closes) = 1
    /\ trades[2].exit_reason = Some("End of backtest period (still holding)")

\* C3: no evaluation changes lookahead_days, duration_days or any other
\* field of a rule object at any point during a call, not even temporarily.
C3_RulesNeverMutated ==
    /\ spec.entry_rules = spec_in.entry_rules
    /\ spec.exit_rules = spec_in.exit_rules

\* C4: a rule with duration_days = D >= 1 evaluates true at bar t exactly
\* when t >= D-1 and on every bar of [t-D+1, t] both compared values are
\* present and the strict comparison holds.
C4_DurationMode ==
    (EvSingle /\ EvRule.duration_days # None) =>
        (ev.result <=> SustainedAt(EvRule, ev.row_idx, df, EvRule.duration_days[1]))

\* With D = 2: the condition is true at t-1 and t but not at t-2, and the
\* rule triggers at t (one bar after it became true).
C4_Witness ==
    /\ EvSingle
    /\ EvRule.type = "crossover"
    /\ EvRule.duration_days = Some(2)
    /\ ev.row_idx = 2
    /\ ~HoldsOn(EvRule, 0, df)
    /\ HoldsOn(EvRule, 1, df)
    /\ HoldsOn(EvRule, 2, df)
    /\ ev.result

\* C5: a rule with lookahead_days = L >= 0 and no duration_days evaluates
\* true at bar t exactly when some bar of the table in [t, t+L] has both
\* compared values present and satisfies the strict comparison; bars past
\* the end and bars with a missing value are skipped.
C5_LookaheadMode ==
    (EvSingle /\ EvRule.duration_days = None /\ EvRule.lookahead_days # None) =>
        (ev.result <=> WithinAt(EvRule, ev.row_idx, df, EvRule.lookahead_days[1]))

\* A volatility filter with L = 3, false at t = 0 where a value is missing,
\* true at t+2, the window running past the end of the table.
C5_Witness ==
    /\ EvSingle
    /\ EvRule.type = "vol_filter"
    /\ EvRule.lookahead_days = Some(3)
    /\ EvRule.duration_days = None
    /\ ev.row_idx = 0
    /\ Len(df) = 3
    /\ ~BothPresent(EvRule, 0, df)
    /\ ~HoldsOn(EvRule, 1, df)
    /\ HoldsOn(EvRule, 2, df)
    /\ ev.result

\* C6: sequential entry at anchor bar a is true exactly when the rule list
\* is non-empty, the first rule's instantaneous condition holds at a
\* whatever modifiers it declares, and every later rule holds
\* instantaneously at a (no lookahead_days) or on some bar of the table in
\* [a, a+L] (lookahead_days = L).
C6_SequentialEntry ==
    (spec_in.entry_sequential /\ call.stage = "entry_done") =>
        (entry_ok <=> SequentialEntryHolds(spec_in.entry_rules, i, df))

\* The first rule declares duration_days = 2 and is evaluated at bar 0,
\* where its duration window runs off the table: the entry still holds.
C6_Witness ==
    /\ spec_in.entry_sequential
    /\ call.stage = "entry_done"
    /\ spec_in.entry_rules[1].duration_days = Some(2)
    /\ i = 0
    /\ entry_ok

\* C7: with sequential entry and the position FLAT, if the first rule holds
\* at bar a and a later rule with lookahead_days = L first holds at a+j
\* (0 < j <= L), the position opens at a: position[a] = 1, the trade's entry
\* date and price are bar a's, and the reason rendered for the lagging rule
\* carries the values of bar a+j.
C7_AnchorAttribution ==
    (pc = "done" /\ spec_in.entry_sequential) =>
        \A a \in 0..(Len(df) - 1) :
            LET rules == spec_in.entry_rules
                lagging == {k \in 2..Len(rules) : rules[k].lookahead_days # None}
                fired(k) ==
                    IF k \in lagging
                    THEN Least({x \in a..(a + rules[k].lookahead_days[1]) :
                                   x < Len(df) /\ HoldsOn(rules[k], x, df)})
                    ELSE a
                reason == Join([k \in DOMAIN rules |->
                                   FormatReason(rules[k], Iloc(df, fired(k)), TRUE)[1]])
            IN  (/\ Before(a + 1) = 0
                 /\ SequentialEntryHolds(rules, a, df)
                 /\ \E k \in lagging : fired(k) > a)
                => /\ positions[a + 1] = 1
                   /\ \E m \in 1..Len(trades) :
                        /\ trades[m].entry_date = DateStr(df, a)
                        /\ trades[m].entry_price = ClosePrice(df, a)
                        /\ trades[m].entry_reason = reason

\* The first rule fires at bar 0 and the lagging volatility rule first holds
\* at bar 2, whose values differ from those of bars 0 and 1.
C7_Witness ==
    /\ pc = "done"
    /\ spec_in.entry_sequential
    /\ Len(spec_in.entry_rules) = 2
    /\ spec_in.entry_rules[2].lookahead_days # None
    /\ HoldsOn(spec_in.entry_rules[1], 0, df)
    /\ ~HoldsOn(spec_in.entry_rules[2], 0, df)
    /\ ~HoldsOn(spec_in.entry_rules[2], 1, df)
    /\ HoldsOn(spec_in.entry_rules[2], 2, df)
    /\ Len(trades) > 0
    /\ trades[1].entry_date = DateStr(df, 0)
    /\ trades[1].entry_reason =
           FormatReason(spec_in.entry_rules[1], Iloc(df, 0), TRUE)[1] \o " | "
               \o FormatReason(spec_in.entry_rules[2], Iloc(df, 2), TRUE)[1]

\* C8: standard entry holds at bar t exactly when every entry rule,
\* evaluated at t in its own temporal mode, is true; _evaluate_rules,
\* _get_triggered_rules and the validator's _evaluate_entry_rules all
\* return that value.
C8_StandardEntry ==
    ev.fn \in {"_evaluate_rules", "_get_triggered_rules", "_evaluate_entry_rules"} =>
        (ev.result <=> StandardEntryHolds(spec_in.entry_rules, ev.row_idx, df))

\* Two entry rules, the first true and the second false on the bar: the
\* non-short-circuiting _get_triggered_rules renders one reason and fails.
C8_Witness ==
    /\ ev.fn = "_get_triggered_rules"
    /\ Len(spec_in.entry_rules) = 2
    /\ ModeHolds(spec_in.entry_rules[1], ev.row_idx, df)
    /\ ~ModeHolds(spec_in.entry_rules[2], ev.row_idx, df)
    /\ Len(ev.reasons) = 1
    /\ ~ev.result

\* C9: on a bar where the position is LONG and several exit rules evaluate
\* true, the position closes on that bar, the loop evaluates no exit rule
\* after the first true one in declared order, and the trade's exit reason
\* is that rule's and no other's.
C9_ExitFirstInOrder ==
    [][(/\ pc \in {"run_backtest", "extract_trades"}
        /\ i' = i + 1
        /\ position = 1
        /\ Cardinality(TrueExits(i)) >= 2)
       => /\ position' = 0
          /\ exit_evaluated' = Least(TrueExits(i))
          /\ pc = "run_backtest" => positions'[i + 1] = 0
          /\ pc = "extract_trades" =>
               /\ Len(trades') = Len(trades) + 1
               /\ trades'[Len(trades')].exit_date = Some(DateStr(df, i))
               /\ trades'[Len(trades')].exit_reason =
                      Some(FormatReason(spec_in.exit_rules[Least(TrueExits(i))],
                                        Iloc(df, i), FALSE)[1])]_vars

\* A trade has just been closed on a bar where both exit rules were true.
C9_Witness ==
    /\ pc = "extract_trades"
    /\ i > 0
    /\ Cardinality(TrueExits(i - 1)) = 2
    /\ Len(trades) > 0
    /\ trades[Len(trades)].exit_date = Some(DateStr(df, i - 1))
    /\ exit_evaluated = 1
    /\ Len(exit_reasons) = 1

\* C10: a rule with neither modifier evaluates true at bar t exactly when
\* both compared values at t are present and the strict comparison holds;
\* a missing value gives false, equal values give false in both directions.
C10_InstantaneousMode ==
    (EvSingle /\ EvRule.duration_days = None /\ EvRule.lookahead_days = None) =>
        /\ ev.result <=> HoldsOn(EvRule, ev.row_idx, df)
        /\ ~BothPresent(EvRule, ev.row_idx, df) => ~ev.result
        /\ (/\ BothPresent(EvRule, ev.row_idx, df)
            /\ Compared(EvRule, Iloc(df, ev.row_idx))[1]
                   = Compared(EvRule, Iloc(df, ev.row_idx))[2]) => ~ev.result

C10_Witness ==
    /\ EvSingle
    /\ EvRule.duration_days = None
    /\ EvRule.lookahead_days = None
    /\ EvRule.type = "vol_filter"
    /\ EvRule.relation = "above"
    /\ ev.result

(* The ledger extract_trades returned, and the bar a ledger date names.    *)
Ledger == returned[Len(returned)].trades

BarOf(date_str) == CHOOSE idx \in 0..(Len(df) - 1) : DateStr(df, idx) = date_str

StillHolding == Some("End of backtest period (still holding)")

\* C11: every trade extract_trades returns has exit_date, exit_price,
\* exit_reason and pnl_pct set; if the position is LONG after the last bar
\* the final trade is the synthetic close: reason 'End of backtest period
\* (still holding)', the last bar's date and the last bar's close, also
\* when the trade was entered on the last bar.
C11_TradesFullyFormed ==
    pc = "done" =>
        /\ \A k \in 1..Len(Ledger) :
             /\ Ledger[k].exit_date # None
             /\ Ledger[k].exit_price # None
             /\ Ledger[k].exit_reason # None
             /\ Ledger[k].pnl_pct # None
        /\ position = 1 =>
             /\ Len(Ledger) > 0
             /\ Ledger[Len(Ledger)].exit_reason = StillHolding
             /\ Ledger[Len(Ledger)].exit_date = Some(DateStr(df, Len(df) - 1))
             /\ Ledger[Len(Ledger)].exit_price = Some(ClosePrice(df, Len(df) - 1))

C11_Witness ==
    /\ pc = "done"
    /\ position = 1
    /\ Len(Ledger) = 2
    /\ Ledger[1].exit_reason # StillHolding
    /\ Ledger[2].entry_date = DateStr(df, Len(df) - 1)
    /\ Ledger[2].exit_date = Some(Ledger[2].entry_date)
    /\ Ledger[2].pnl_pct = Some(PnlPct(ClosePrice(df, Len(df) - 1),
                                       ClosePrice(df, Len(df) - 1)))

\* C12: in extract_trades a trade is opened only while none is open, and
\* the ledger is chronological and non-overlapping: a trade closed by an
\* exit rule exits on a bar strictly after its entry bar, and every trade
\* is entered on a bar strictly after the previous trade's exit bar.
C12_LedgerChronological ==
    /\ [](pc \in {"extract_trades", "done"} =>
            /\ (current_trade # None) <=> (position = 1)
            /\ \A k \in 1..Len(trades) :
                 /\ trades[k].exit_reason # StillHolding =>
                      BarOf(Val(trades[k].exit_date)) > BarOf(trades[k].entry_date)
                 /\ k > 1 =>
                      BarOf(trades[k].entry_date) > BarOf(Val(trades[k - 1].exit_date)))
    /\ [][(pc = "extract_trades" /\ current_trade' # current_trade
              /\ current_trade' # None
              /\ Val(current_trade').exit_date = None) => current_trade = None]_vars

C12_Witness ==
    /\ pc = "done"
    /\ Len(trades) = 2
    /\ trades[1].exit_reason # StillHolding
    /\ BarOf(Val(trades[1].exit_date)) = BarOf(trades[1].entry_date) + 1
    /\ BarOf(trades[2].entry_date) = BarOf(Val(trades[1].exit_date)) + 1

Zero == Rat(0, 1)

\* C13: run_backtest lags execution by one day: strategy_return[0] = 0 and
\* strategy_return[t] = position[t-1] * return[t] for t >= 1, so the bar
\* that opens a position earns nothing, and the bar that closes one still
\* earns its return while the next bar earns nothing.
C13_OneDayLag ==
    pc \in {"backtest_returned", "extract_trades", "done"} =>
        /\ Len(strategy_return) = Len(df)
        /\ \A t \in 1..Len(df) :
             /\ t = 1 => strategy_return[t] = Zero
             /\ (t > 1 /\ positions[t - 1] = 1) => strategy_return[t] = df[t].return
             /\ (t > 1 /\ positions[t - 1] = 0) => strategy_return[t] = Zero
             /\ t \in Opens => strategy_return[t] = Zero
             /\ t \in Closes =>
                  /\ strategy_return[t] = df[t].return
                  /\ t < Len(df) => strategy_return[t + 1] = Zero

C13_Witness ==
    /\ pc = "backtest_returned"
    /\ \E t \in Closes :
         /\ t < Len(df)
         /\ strategy_return[t] = df[t].return
         /\ df[t].return # Zero
         /\ df[t + 1].return # Zero
         /\ strategy_return[t + 1] = Zero
         /\ t + 1 \in Opens

\* C14: run_backtest called again, and extract_trades called again, with
\* the same specification and table return what the earlier call returned,
\* and after every call each rule of the specification has the field
\* values it had before the call.
C14_Idempotent ==
    /\ \A a \in DOMAIN returned, b \in DOMAIN returned :
         returned[a].fn = returned[b].fn => returned[a] = returned[b]
    /\ pc \in {"backtest_returned", "done"} => spec = spec_in

C14_Witness ==
    /\ Len(returned) = 4
    /\ returned[1].fn = "run_backtest"
    /\ returned[2].fn = "run_backtest"
    /\ returned[3].fn = "extract_trades"
    /\ returned[4].fn = "extract_trades"
    /\ spec_in.entry_sequential
    /\ spec_in.entry_rules[2].lookahead_days # None
    /\ Val(spec_in.entry_rules[2].lookahead_days) >= 1
    /\ Len(returned[4].trades) > 0
    /\ \E t \in DOMAIN returned[2].position :
         t > 1 /\ returned[2].position[t] = 1 /\ returned[2].position[t - 1] = 0

\* C15 as stated: in run_backtest the position changes 0->1 on bar t only
\* if the entry condition is true at t and was not true at t-1, and 1->0
\* only if the exit condition is true at t and was not true at t-1.
C15_OnlyWhenNewlyTrue ==
    \A t \in 1..Len(positions) :
        /\ t \in Opens => (EntryHolds(t - 1) /\ (t > 1 => ~EntryHolds(t - 2)))
        /\ t \in Closes => (ExitHolds(t - 1) /\ (t > 1 => ~ExitHolds(t - 2)))
        /\ positions[t] # Before(t) => t \in Opens \cup Closes

\* C15 amended: the position changes 0->1 on bar t only if the entry
\* condition is true at t, and 1->0 only if the exit condition is true at
\* t, and never otherwise; the condition may have been true at t-1 as
\* well, and then bar t-1 was itself a change of the opposite kind.
C15_OnlyWhenTrue ==
    \A t \in 1..Len(positions) :
        /\ t \in Opens =>
             /\ EntryHolds(t - 1)
             /\ (t > 1 /\ EntryHolds(t - 2)) => (t - 1) \in Closes
        /\ t \in Closes =>
             /\ ExitHolds(t - 1)
             /\ ExitHolds(t - 2) => (t - 1) \in Opens
        /\ positions[t] # Before(t) => t \in Opens \cup Closes

C15_Witness ==
    /\ pc = "backtest_returned"
    /\ \E t \in Opens : t > 1 /\ EntryHolds(t - 2) /\ (t - 1) \in Closes
    /\ \E t \in Closes : ExitHolds(t - 2) /\ (t - 1) \in Opens

\* C16: one unmodified crossover-above entry rule and one unmodified
\* crossover-below exit rule on the same pair, over ten bars with fast >
\* slow first on bar 4, holding on bars 4..7, and fast < slow on bars 8..9:
\* run_backtest's position is 1 exactly on bars 4..7 and extract_trades
\* returns exactly one trade, entered at bar 4's close, exited by the exit
\* rule at bar 8's close, with pnl_pct = (close[8] / close[4] - 1) * 100.
C16_CrossoverScenario ==
    /\ pc \in {"backtest_returned", "extract_trades", "done"} =>
         positions = [t \in 1..10 |-> IF t - 1 \in 4..7 THEN 1 ELSE 0]
    /\ pc = "done" =>
         /\ Len(Ledger) = 1
         /\ Ledger[1].entry_date = DateStr(df, 4)
         /\ Ledger[1].entry_price = Iloc(df, 4).close
         /\ Ledger[1].exit_date = Some(DateStr(df, 8))
         /\ Ledger[1].exit_price = Some(Iloc(df, 8).close)
         /\ Ledger[1].exit_reason =
                Some(FormatCrossoverReason(spec_in.exit_rules[1], Iloc(df, 8), FALSE))
         /\ Val(Ledger[1].pnl_pct).num * Iloc(df, 4).close
                = (Iloc(df, 8).close - Iloc(df, 4).close) * 100 * Val(Ledger[1].pnl_pct).den

C16_Witness ==
    /\ pc = "done"
    /\ Len(df) = 10
    /\ Len(Ledger) = 1
    /\ Ledger[1].entry_price = 140
    /\ Ledger[1].exit_price = Some(180)
    /\ IsNa(Iloc(df, 3)[MaCol(10)])
    /\ HoldsOn(spec_in.exit_rules[1], 0, df)

Range(xs) == {xs[k] : k \in DOMAIN xs}

Count(xs, x) == Cardinality({k \in DOMAIN xs : xs[k] = x})

First(xs, x) == Least({k \in DOMAIN xs : xs[k] = x})

(* The keys on which the entry rules demand both 'above' and 'below'.      *)
OpposedKeys(type) ==
    LET en == spec_in.entry_rules
    IN  {RuleKey(en[a]) : a \in {k \in DOMAIN en :
            /\ en[k].type = type
            /\ \E b \in DOMAIN en :
                 /\ en[b].type = type
                 /\ RuleKey(en[b]) = RuleKey(en[k])
                 /\ {CompareAbove(en[k]), CompareAbove(en[b])} = {TRUE, FALSE}}}

SpecValidated == validation.fn = "validate_spec"

DataValidated == validation.fn = "validate_with_data"

\* C17: when the entry rules hold two crossover rules on the same pair with
\* directions 'above' and 'below' (or two volatility filters on the same
\* window and threshold with relations 'above' and 'below'), validate_spec
\* returns ok = false with the corresponding contradiction error exactly
\* once, however many such pairs there are; for the entry rules {10, 50,
\* above} and {10, 50, below} of an otherwise valid specification it is the
\* only error.
C17_ContradictionOnce ==
    SpecValidated =>
        /\ OpposedKeys("crossover") # {} =>
             /\ ~validation.result.ok
             /\ Count(validation.result.errors, MsgCrossBoth) = 1
        /\ OpposedKeys("vol_filter") # {} =>
             /\ ~validation.result.ok
             /\ Count(validation.result.errors, MsgVolBoth) = 1
        /\ ( /\ Range(spec_in.entry_rules) =
                    {CrossoverRule(10, 50, "above", None, None),
                     CrossoverRule(10, 50, "below", None, None)}
             /\ spec_in.exit_rules = <<CrossoverRule(10, 50, "below", None, None)>>
             /\ ~DateGeq(spec_in.start_date, spec_in.end_date) )
           => validation.result.errors = <<MsgCrossBoth>>

C17_Witness ==
    /\ SpecValidated
    /\ Cardinality(OpposedKeys("crossover")) = 2
    /\ Count(validation.result.raw_errors, MsgCrossBoth) = 2
    /\ Count(validation.result.errors, MsgCrossBoth) = 1
    /\ ~validation.result.ok

\* C18: on a non-empty table validate_with_data gives the 'unlikely to
\* generate any entries' warning exactly when the entry condition (standard
\* or sequential) is true on no bar, and the 'exit conditions never
\* trigger' warning exactly when the entry condition is true on some bar
\* and no exit rule is true on any bar, whether or not the scan stopped
\* early; errors is empty and ok is true.
C18_DegenerateWarnings ==
    (DataValidated /\ validation.table = "table") =>
        LET bars == 0..(Len(df) - 1)
            enters == \E t \in bars : EntryHolds(t)
            exits == \E t \in bars : ExitHolds(t)
        IN  /\ MsgNoEntries \in Range(validation.result.warnings) <=> ~enters
            /\ MsgNoExits \in Range(validation.result.warnings) <=> (enters /\ ~exits)
            /\ validation.result.errors = << >>
            /\ validation.result.ok

C18_Witness ==
    /\ DataValidated
    /\ validation.table = "table"
    /\ spec_in.entry_sequential
    /\ validation.result.scanned < Len(df)
    /\ ~EntryHolds(0)
    /\ ExitHolds(0)
    /\ EntryHolds(1)
    /\ MsgNoEntries \notin Range(validation.result.warnings)
    /\ MsgNoExits \notin Range(validation.result.warnings)

\* C19: validate_with_data given a missing (None) or an empty table returns
\* ok = false, the single error 'No price data is available for the
\* requested period.' and no warnings, and has evaluated no rule.
C19_NoData ==
    (DataValidated /\ validation.table \in {"missing", "empty"}) =>
        /\ ~validation.result.ok
        /\ validation.result.errors = <<MsgNoData>>
        /\ validation.result.warnings = << >>
        /\ validation.result.scanned = 0

C19_Witness ==
    /\ DataValidated
    /\ validation.table = "empty"
    /\ Len(spec_in.entry_rules) > 0
    /\ Len(spec_in.exit_rules) > 0
    /\ validation.result.errors = <<MsgNoData>>

(* out lists each message of raw once, in the order of first appearance.   *)
FirstSeenOrder(out, raw) ==
    /\ Range(out) = Range(raw)
    /\ \A a \in DOMAIN out, b \in DOMAIN out :
         /\ a # b => out[a] # out[b]
         /\ a < b => First(raw, out[a]) < First(raw, out[b])

\* C20: the errors and the warnings validate_spec and validate_with_data
\* return never hold a message twice, and hold the messages in the order
\* in which each was first produced.
C20_FirstSeenOrder ==
    (SpecValidated \/ DataValidated) =>
        /\ FirstSeenOrder(validation.result.errors, validation.result.raw_errors)
        /\ FirstSeenOrder(validation.result.warnings, validation.result.raw_warnings)

C20_Witness ==
    /\ SpecValidated
    /\ \E a, b, c \in DOMAIN validation.result.raw_warnings :
         /\ a < b /\ b < c
         /\ validation.result.raw_warnings[a] = MsgSmallMa
         /\ validation.result.raw_warnings[b] = MsgLargeMa
         /\ validation.result.raw_warnings[c] = MsgSmallMa
    /\ validation.result.warnings = <<MsgSmallMa, MsgLargeMa>>
    /\ Len(validation.result.raw_errors) > Len(validation.result.errors)

\* C21: when validate_spec returns ok = true, start_date is before
\* end_date, both rule lists are non-empty, every crossover rule of either
\* list has fast_ma > 0, slow_ma > 0 and fast_ma # slow_ma, every
\* volatility rule has window > 1 and no two entry rules on the same key
\* demand opposite directions; and ok is true exactly when errors is empty,
\* whatever the warnings.
C21_OkMeansWellFormed ==
    SpecValidated =>
        /\ validation.result.ok <=> validation.result.errors = << >>
        /\ validation.result.ok =>
             LET rules == spec_in.entry_rules \o spec_in.exit_rules
             IN  /\ ~DateGeq(spec_in.start_date, spec_in.end_date)
                 /\ Len(spec_in.entry_rules) > 0
                 /\ Len(spec_in.exit_rules) > 0
                 /\ \A k \in DOMAIN rules :
                      /\ rules[k].type = "crossover" =>
                           /\ rules[k].fast_ma > 0
                           /\ rules[k].slow_ma > 0
                           /\ rules[k].fast_ma # rules[k].slow_ma
                      /\ rules[k].type = "vol_filter" => rules[k].window > 1
                 /\ OpposedKeys("crossover") = {}
                 /\ OpposedKeys("vol_filter") = {}

C21_Witness ==
    /\ SpecValidated
    /\ validation.result.ok
    /\ Len(validation.result.warnings) > 1
    /\ Len(spec_in.entry_rules) > 2
    /\ \E k \in DOMAIN spec_in.exit_rules : spec_in.exit_rules[k].type = "vol_filter"

(* The call parsed a raw dict / a dict that to_dict produced.              *)
RawParsed == parsed # NoParse /\ DOMAIN spec_in = {}

RoundTripParsed == parsed # NoParse /\ DOMAIN spec_in # {}

(* The texts that are the ISO form of a calendar date.                     *)
CalendarDateTexts ==
    UNION {{IsoFormat([year |-> y, month |-> m, day |-> d]) : d \in 1..DaysInMonth(y, m)} :
              y \in 2023..2024, m \in 1..12}

NotADate(key) == key \notin DOMAIN data \/ data[key] \notin CalendarDateTexts

RuleDicts(key) == Get(data, key, << >>)

TypeOf(rule_dict) == Get(rule_dict, "type", "None")

UnknownType(key) ==
    \E k \in DOMAIN RuleDicts(key) :
        TypeOf(RuleDicts(key)[k]) \notin {"crossover", "vol_filter"}

Defective ==
    \/ NotADate("start_date") \/ NotADate("end_date")
    \/ UnknownType("entry_rules") \/ UnknownType("exit_rules")
    \/ RuleDicts("entry_rules") = << >> \/ RuleDicts("exit_rules") = << >>

(* Every rule dict of a known type carries the fields its type requires.   *)
FieldsComplete ==
    \A key \in {"entry_rules", "exit_rules"} : \A k \in DOMAIN RuleDicts(key) :
        LET r == RuleDicts(key)[k]
        IN  /\ TypeOf(r) = "crossover" => {"fast_ma", "slow_ma", "direction"} \subseteq DOMAIN r
            /\ TypeOf(r) = "vol_filter" => "window" \in DOMAIN r

\* C24: parse_strategy_spec fails with a ValueError carrying a descriptive
\* message, and returns no specification, whenever start_date or end_date
\* is not a valid ISO calendar date, any entry or exit rule has a type
\* other than 'crossover' or 'vol_filter', or entry_rules or exit_rules is
\* empty or absent.
C24_ValueErrorWhenever ==
    (RawParsed /\ Defective) =>
        /\ parsed.raised = "ValueError"
        /\ parsed.message # ""
        /\ parsed.result = None

(* The same for dicts whose rules of a known type are complete.            *)
ValueErrorWhenComplete ==
    (RawParsed /\ Defective) =>
        /\ parsed.raised # "none"
        /\ parsed.result = None
        /\ (FieldsComplete \/ NotADate("start_date") \/ NotADate("end_date")) =>
              /\ parsed.raised = "ValueError"
              /\ parsed.message # ""

\* C25: for every StrategySpec s with non-empty rule lists,
\* parse_strategy_spec(s.to_dict()) returns a specification with the same
\* entry rules and exit rules in the same order with the same fields
\* (lookahead_days and duration_days included, also when they are 0), the
\* same entry_sequential flag and the same start and end dates as s.
C25_RoundTrip ==
    RoundTripParsed =>
        /\ parsed.raised = "none"
        /\ parsed.result.entry_rules = spec_in.entry_rules
        /\ parsed.result.exit_rules = spec_in.exit_rules
        /\ parsed.result.entry_sequential = spec_in.entry_sequential
        /\ parsed.result.start_date = spec_in.start_date
        /\ parsed.result.end_date = spec_in.end_date

C25_Witness ==
    /\ RoundTripParsed
    /\ parsed.raised = "none"
    /\ Len(spec_in.entry_rules) = 2
    /\ spec_in.entry_rules[1].lookahead_days = Some(0)
    /\ spec_in.entry_rules[2].duration_days = Some(0)
    /\ spec_in.exit_rules[1].type = "vol_filter"
    /\ spec_in.entry_sequential
    /\ spec_in.start_date.day = 29
    /\ "lookahead_days" \in DOMAIN data.entry_rules[1]
    /\ "duration_days" \notin DOMAIN data.entry_rules[1]

\* C29: no rule that parse_strategy_spec produced and validate_spec
\* accepted carries both duration_days and lookahead_days.
C29_NeverCombined ==
    (parsed.fn = "parse_strategy_spec" /\ SpecValidated /\ validation.result.ok) =>
        LET rules == parsed.result.entry_rules \o parsed.result.exit_rules
        IN  \A k \in DOMAIN rules :
                rules[k].lookahead_days = None \/ rules[k].duration_days = None

-----------------------------------------------------------------------------
(* Retry wrapper                                                           *)

Wrapped == retry # NoRetry

(* The wrapper gave up: it raised an exception its except clause catches. *)
GaveUp ==
    /\ retry.status = "raised"
    /\ IsInstance(retry.raised, retry.retryable_exceptions)

\* C26: a function wrapped by retry_with_backoff(max_retries = m) is called
\* at most m + 1 times; the wrapper returns the successful result after
\* exactly k + 1 calls when the first k <= m calls fail with a retryable
\* exception and the next succeeds; it gives up only when all m + 1 calls
\* failed, and then it raises the exception of the last call and has made
\* exactly m + 1 calls.
C26_AtMostAttempts ==
    Wrapped =>
        /\ retry.calls <= retry.max_retries + 1
        /\ retry.status = "returned" =>
              /\ retry.result = "Success"
              /\ retry.failures <= retry.max_retries
              /\ retry.calls = retry.failures + 1
        /\ (retry.status = "running" /\ retry.calls > 0) =>
              /\ retry.failures = retry.calls
              /\ retry.failures <= retry.max_retries
        /\ GaveUp =>
              /\ retry.failures = retry.max_retries + 1
              /\ retry.calls = retry.max_retries + 1
              /\ retry.raised = retry.outcome

C26_Witness ==
    /\ Wrapped
    /\ retry.max_retries = 2
    /\ \/ retry.status = "returned" /\ retry.calls = 3
       \/ GaveUp /\ retry.calls = 3

ApiWrapped == Wrapped /\ retry.decorator = "retry_on_api_error"

(* Authentication, invalid-request and parsing errors. *)
NeverRetried == {"AuthenticationError", "BadRequestError", "ValueError", "JSONDecodeError"}

\* C27: under retry_on_api_error a call that fails with an authentication,
\* invalid-request or parsing error is not repeated: the wrapper raises that
\* error at once; only rate-limit, connection, timeout and temporary API
\* errors are followed by another call.
C27_PermanentNotRetried ==
    ApiWrapped =>
        /\ retry.outcome \in NeverRetried =>
              /\ retry.status = "raised"
              /\ retry.raised = retry.outcome
        /\ (retry.status = "running" /\ retry.calls > 0) =>
              retry.outcome \in
                  {"RateLimitError", "APIConnectionError", "APITimeoutError",
                   "InternalServerError", "ConnectionError", "TimeoutError"}

(* The part of C27 the decorator keeps: parsing errors leave after one call. *)
ParsingNotRetried ==
    (ApiWrapped /\ retry.outcome \in {"ValueError", "JSONDecodeError"}) =>
        /\ retry.status = "raised"
        /\ retry.raised = retry.outcome
        /\ retry.failures = retry.calls - 1

-----------------------------------------------------------------------------
(* Caller's table                                                          *)

\* C30: run_backtest, extract_trades and validate_with_data leave the
\* caller's feature table as it was: every step of the three functions keeps
\* its rows (values, order, column set) and its index labels; the position,
\* return and equity columns are written to the copy the function made.
C30_TableUnchanged ==
    [][/\ df' = df
       /\ index' = index
       /\ (pc = "run_backtest" /\ pc' = "backtest_returned") =>
             /\ ~work'.shared
             /\ \A k \in 1..Len(df) :
                   /\ work'.rows[k]["position"] = positions[k]
                   /\ "position" \notin DOMAIN df[k]]_vars

C30_Witness ==
    /\ pc = "done"
    /\ index = DatetimeIndex(Len(df))
    /\ work.index = RangeIndex(Len(df))
    /\ Len(trades) > 0
    /\ \E k \in 1..Len(df) : positions[k] = 1

-----------------------------------------------------------------------------
(* Pipeline                                                                *)

Started == graph.call # "none"

(* graph.lineage holds the nodes that ran on the way to the present state: *)
(* graph.executed, without the nodes whose checkpoints were never written  *)
(* once a resumption has gone back to the last checkpoint that was.        *)
HasRun(node) == \E k \in DOMAIN graph.lineage : graph.lineage[k] = node

LastRan == IF Len(graph.lineage) = 0 THEN "none" ELSE graph.lineage[Len(graph.lineage)]

AfterValidate ==
    {"fetch_data", "add_features", "pre_qa", "backtest", "metrics", "trades",
     "explain", "aggregate", "persist"}

(* A stored validation result that is ok and has no errors. *)
Passed(result) ==
    /\ result # None
    /\ Val(result).ok
    /\ Len(Val(result).errors) = 0

\* C22: fetch_data and every later node run only when validate stored a
\* validation_result that is ok with no errors, and fetch_data is entered
\* from validate only; when validate did not store such a result the graph
\* is at END after validate and no later node runs.
C22_OnlyAfterValidation ==
    Started =>
        /\ (\E node \in AfterValidate : HasRun(node)) =>
              /\ HasRun("validate")
              /\ Passed(state.validation_result)
        /\ \A k \in DOMAIN graph.lineage :
              graph.lineage[k] = "fetch_data" =>
                  /\ k > 1
                  /\ graph.lineage[k - 1] \in {"validate", "fetch_data"}
        /\ (LastRan = "validate" /\ ~Passed(state.validation_result)) =>
              graph.next = "END"
        /\ (LastRan = "validate" /\ Passed(state.validation_result)) =>
              graph.next = "fetch_data"

C22_Witness ==
    /\ Started
    /\ LastRan = "persist"
    /\ Passed(state.validation_result)
    /\ Len(Val(state.validation_result).warnings) > 0
    /\ graph.call = "returned"

\* C23: backtest runs only when pre_qa stored a data_validation_result that
\* is ok with no errors, on a table that is present and not empty (a missing
\* or empty table is routed to END); warnings do not change the route: after
\* a passing pre_qa the next node is backtest, the graph reaches END only
\* through backtest, metrics and trades, and the state handed back carries
\* the warnings of pre_qa together with the results.
C23_BacktestOnlyAfterQa ==
    Started =>
        /\ HasRun("backtest") =>
              /\ HasRun("pre_qa")
              /\ Passed(state.data_validation_result)
              /\ state.data # None
              /\ Len(Val(state.data)) > 0
        /\ state.spec # None =>
              \A table \in {None, Some(<< >>)} :
                  CheckDataValidation(
                      [state EXCEPT !.data_validation_result =
                          Some(Stored(ValidateWithData(Val(state.spec), table)))]) = "fail"
        /\ (LastRan = "pre_qa" /\ Passed(state.data_validation_result)) =>
              graph.next = "backtest"
        /\ (LastRan = "pre_qa" /\ ~Passed(state.data_validation_result)) =>
              graph.next = "END"
        /\ (graph.next = "END" /\ HasRun("pre_qa")
                /\ Passed(state.data_validation_result)) =>
              /\ HasRun("backtest") /\ HasRun("metrics") /\ HasRun("trades")
              /\ state.backtest_results # None
              /\ state.metrics # None
              /\ state.trades # None
              /\ \A k \in DOMAIN Val(state.data_validation_result).warnings :
                    \E j \in DOMAIN state.warnings :
                        state.warnings[j] = Val(state.data_validation_result).warnings[k]
              /\ (graph.call = "returned" /\ returned # << >>) => returned = <<state>>

C23_Witness ==
    /\ Started
    /\ graph.call = "returned"
    /\ graph.next = "END"
    /\ HasRun("trades")
    /\ Len(Val(state.data_validation_result).warnings) > 0
    /\ Len(Val(state.trades)) > 0

(* What run_pipeline leaves behind, and what a declined resume_pipeline     *)
(* does.                                                                   *)
PausedBeforeValidate ==
    (graph.call = "returned" /\ graph.resumes = 0 /\ graph.raised = "none") =>
        /\ graph.executed = <<"initialize", "translate", "interpret">>
        /\ graph.next = "validate"
        /\ returned = <<state>>
        /\ state.validation_result = None

DeclinedRunsNothing ==
    (/\ graph.call = "returned"
     /\ graph'.call = "returned"
     /\ graph'.resumes = graph.resumes + 1
     /\ graph'.last = "resume_pipeline") =>
        /\ graph'.executed = graph.executed
        /\ graph'.next = Checkpoint(graph, state).next
        /\ state' = [Checkpoint(graph, state).values EXCEPT !.confirmed = FALSE]
        /\ returned' = <<state'>>

OnlyFirstThree ==
    \A k \in DOMAIN graph.executed :
        graph.executed[k] \in {"initialize", "translate", "interpret"}

\* C28: run_pipeline runs initialize, translate and interpret and stops
\* before validate, handing back the paused state (a fresh state has
\* confirmed = false); validate and the later nodes run only after a
\* resume_pipeline with confirmed = True; a resume_pipeline with
\* confirmed = False runs no node and hands back the paused state.
C28_OnlyResumePipeline ==
    /\ [](/\ ~CreateInitialState.confirmed
          /\ Started =>
                /\ ~graph.confirmed => OnlyFirstThree
                /\ PausedBeforeValidate)
    /\ [][DeclinedRunsNothing]_vars

\* C28 (amended): run_pipeline runs initialize, translate and interpret and
\* stops before validate, handing back the paused state; validate and the
\* later nodes run only after the session was resumed with confirmed =
\* True, by resume_pipeline or by checkpoints.resume_from_checkpoint; a
\* resume_pipeline with confirmed = False runs no node and hands back the
\* paused state.
C28_PausedUntilConfirmed ==
    /\ [](/\ ~CreateInitialState.confirmed
          /\ Started =>
                /\ ~(graph.confirmed \/ graph.invoked) => OnlyFirstThree
                /\ PausedBeforeValidate)
    /\ [][DeclinedRunsNothing]_vars

(* validate ran although resume_pipeline was never called with             *)
(* confirmed = True.                                                       *)
ResumedWithoutResumePipeline ==
    /\ Started
    /\ ~graph.confirmed
    /\ graph.invoked
    /\ LastRan = "persist"

C28_Witness ==
    /\ Started
    /\ graph.call = "returned"
    /\ graph.resumes = 2
    /\ graph.confirmed
    /\ ~state.confirmed
    /\ LastRan = "persist"

-----------------------------------------------------------------------------
(* Claims: a rule whose column the table lacks                             *)

Absent(rule, d) == ~(RuleColumns(rule) \subseteq Columns(d))

AbsentEntryRules == {k \in DOMAIN spec_in.entry_rules : Absent(spec_in.entry_rules[k], df)}

WithModifiers(rule, m) == [rule EXCEPT !.lookahead_days = m[1], !.duration_days = m[2]]

\* C31: a rule that refers to a moving-average or volatility column the
\* table lacks is false on every bar in every mode (instantaneous,
\* duration, lookahead, and as probed inside sequential entry), and a
\* specification with such an entry rule never enters: every position is 0
\* and the ledger is empty.
C31_AbsentColumnNeverTrue ==
    (pc \in {"run_backtest", "backtest_returned", "extract_trades", "done"}
        /\ AbsentEntryRules # {})
    => /\ \A k \in AbsentEntryRules : \A t \in 0..(Len(df) - 1) :
            \A m \in Modifiers \cup BothModifiers :
               ~EvaluateRule(WithModifiers(spec_in.entry_rules[k], m), t, df)
       /\ ~entry_ok
       /\ position = 0
       /\ \A k \in DOMAIN positions : positions[k] = 0
       /\ trades = << >>
       /\ current_trade = None
       /\ \A k \in DOMAIN returned :
            /\ returned[k].trades = << >>
            /\ \A t \in DOMAIN returned[k].position : returned[k].position[t] = 0

\* The second rule of a sequential entry refers to an absent column, the
\* first rule holds on some bar (so the absent rule was probed), and both
\* calls have returned.
C31_Witness ==
    /\ pc = "done"
    /\ spec_in.entry_sequential
    /\ Len(spec_in.entry_rules) = 2
    /\ AbsentEntryRules = {2}
    /\ spec_in.entry_rules[2].lookahead_days # None
    /\ \E t \in 0..(Len(df) - 1) : EvaluateRule(spec_in.entry_rules[1], t, df)
    /\ Len(returned) = 2
    /\ Len(returned[1].position) = NBars

-----------------------------------------------------------------------------
(* Claims: the contradiction error and the entry condition                 *)

ContradictionReported ==
    /\ validation.fn = "validate_spec"
    /\ \/ Count(validation.result.errors, MsgCrossBoth) > 0
       \/ Count(validation.result.errors, MsgVolBoth) > 0

\* C32: whenever validate_spec reports the entry-contradiction error, the
\* entry condition is false on every bar of every feature table, also when
\* the contradicting rules carry lookahead_days or duration_days or the
\* specification has entry_sequential set.
C32_ContradictionUnsatisfiable ==
    ContradictionReported =>
        \A t \in 0..(Len(df) - 1) : ~EntryOk(spec_in, t, df)

(* The same when no contradicting rule looks ahead.                        *)
UnsatisfiableWithoutLookahead ==
    (ContradictionReported
        /\ \A k \in DOMAIN spec_in.entry_rules :
              spec_in.entry_rules[k].lookahead_days = None)
    => \A t \in 0..(Len(df) - 1) : ~EntryOk(spec_in, t, df)

-----------------------------------------------------------------------------
(* Claims: the order of the steps                                          *)

Order ==
    <<"initialize", "translate", "interpret", "validate", "fetch_data",
      "add_features", "pre_qa", "backtest", "metrics", "trades", "explain",
      "aggregate", "persist">>

IsPrefix(xs, ys) == Len(xs) <= Len(ys) /\ \A k \in DOMAIN xs : xs[k] = ys[k]

(* run_pipeline followed by at most one resumption.                        *)
OneRun == Started /\ graph.resumes <= 1

(* xs without the elements equal to their successor.                       *)
RECURSIVE Squeeze(_)
Squeeze(xs) ==
    IF Len(xs) <= 1 THEN xs
    ELSE IF xs[1] = xs[2] THEN Squeeze(Tail(xs))
    ELSE <<xs[1]>> \o Squeeze(Tail(xs))

\* C33: in a pipeline run (run_pipeline followed by resume_pipeline) the
\* sequence of steps executed is a prefix of initialize, translate,
\* interpret, validate, fetch_data, add_features, pre_qa, backtest,
\* metrics, trades, explain, aggregate, persist, so no step runs twice.
C33_PrefixOfOrder ==
    OneRun => IsPrefix(graph.executed, Order)

\* C33 (amended): in a pipeline run the steps that complete form a prefix
\* of the fixed order and none completes twice; the steps started are the
\* same prefix except that a translate step that raised in run_pipeline is
\* started once more by resume_pipeline; the structural validator comes
\* before fetch_data, the data validator before backtest, and metrics and
\* trades after backtest.
C33_CompletedInOrder ==
    OneRun =>
        /\ IsPrefix(graph.completed, Order)
        /\ IsPrefix(Squeeze(graph.executed), Order)
        /\ \A k \in DOMAIN graph.executed :
              Count(graph.executed, graph.executed[k]) > 1 =>
                  /\ graph.executed[k] = "translate"
                  /\ Count(graph.executed, "translate") = 2
                  /\ Count(graph.completed, "translate") <= 1
        /\ \A k \in DOMAIN graph.executed :
              /\ graph.executed[k] = "fetch_data" =>
                    \E j \in 1..(k - 1) : graph.completed[j] = "validate"
              /\ graph.executed[k] = "backtest" =>
                    \E j \in 1..(k - 1) : graph.completed[j] = "pre_qa"
              /\ graph.executed[k] \in {"metrics", "trades"} =>
                    \E j \in 1..(k - 1) : graph.completed[j] = "backtest"

\* run_pipeline and one resume_pipeline took the run through all thirteen
\* steps.
C33_Witness ==
    /\ OneRun
    /\ graph.call = "returned"
    /\ graph.completed = Order
    /\ graph.executed = Order

-----------------------------------------------------------------------------
(* Claims: failures of the steps                                           *)

(* The last call, of run_pipeline or resume_pipeline, ended because a       *)
(* critical step raised.                                                   *)
Aborted ==
    /\ graph.call = "returned"
    /\ graph.raised \in {"translate", "fetch_data"}
    /\ graph.last \in {"run_pipeline", "resume_pipeline"}

FailedMsg(node) == node \o "_node failed: " \o ServiceError

(* The errors list holds the exception's text, bare or as written by       *)
(* handle_node_error.                                                      *)
Recorded(errors, node) ==
    \E k \in DOMAIN errors : errors[k] \in {ServiceError, FailedMsg(node)}

InterpretWarning == "Interpretation generation failed: " \o ServiceError
ExplainWarning == "Explanation generation failed: " \o ServiceError

(* A failure of translate or fetch_data ends the call at that step, and    *)
(* what the call returns is a state; a failure of interpret or explain     *)
(* leaves one warning and one "<node> failed" error and the next step is   *)
(* still scheduled.                                                        *)
AbortsOrContinues ==
    Started =>
        /\ Aborted => /\ LastRan = graph.raised
                      /\ Len(returned) = 1
                      /\ DOMAIN returned[1] = DOMAIN CreateInitialState
        /\ Count(state.warnings, InterpretWarning) = Count(state.errors, FailedMsg("interpret"))
        /\ Count(state.warnings, ExplainWarning) = Count(state.errors, FailedMsg("explain"))
        /\ Count(state.errors, FailedMsg("interpret")) <= 1
        /\ Count(state.errors, FailedMsg("explain")) <= 1
        /\ (LastRan = "interpret" /\ graph.raised = "none") => graph.next = "validate"
        /\ (LastRan = "explain" /\ graph.raised = "none") => graph.next = "aggregate"

(* Every checkpoint write after validate failed behind the stream and      *)
(* resume_pipeline still handed back the state persist left.               *)
CompletedDespiteCheckpointError ==
    /\ graph.call = "returned"
    /\ graph.last = "resume_pipeline"
    /\ graph.raised = "checkpoint"
    /\ graph.executed = Order
    /\ graph.saved # << >>
    /\ graph.saved[1].next = "fetch_data"
    /\ returned = <<state>>
    /\ state.current_step = "persist"
    /\ state.backtest_results # None

\* C34: a failure of translate or fetch_data aborts the run (no later step
\* executes) and the call returns, without raising, a state whose errors
\* list records the failure; a failure of interpret or explain adds a
\* warning and exactly one "<node> failed: ..." error and the following
\* steps still execute.
C34_FailureRecorded ==
    /\ AbortsOrContinues
    /\ (Started /\ Aborted) => Recorded(returned[1].errors, graph.raised)

(* run_pipeline records the failure in what it returns.                    *)
RunPipelineRecords ==
    (Started /\ Aborted /\ graph.resumes = 0) =>
        Recorded(returned[1].errors, graph.raised)

(* interpret and explain both failed and the run still reached persist.    *)
NonCriticalFailuresSurvived ==
    /\ Started
    /\ LastRan = "persist"
    /\ Count(state.errors, FailedMsg("interpret")) = 1
    /\ Count(state.errors, FailedMsg("explain")) = 1

-----------------------------------------------------------------------------
(* Claims: concurrent invocations                                          *)

BothDone == pc = "threads" /\ \A t \in DOMAIN threads : threads[t].pc = "done"

(* A thread's run_backtest ended in the TypeError of line 118, 185 or 287. *)
ThreadRaised == pc = "threads" /\ \E t \in DOMAIN threads : threads[t].pc = "raised"

(* Both threads returned, the first without ever opening the position the  *)
(* second held on bars 0 and 1, and the rule shows its lookahead again.    *)
ThreadsDisagree ==
    /\ BothDone
    /\ threads[1].positions = <<0, 1, 0>>
    /\ threads[2].positions = <<1, 1, 0>>
    /\ spec = spec_in

\* C35: when two invocations of the core run concurrently on the same
\* StrategySpec with entry_sequential set, under every interleaving each
\* returns the result it returns when run alone, and after both finish
\* every rule's lookahead_days and duration_days equal their original
\* values.
C35_ThreadsIndependent ==
    BothDone =>
        /\ \A t \in DOMAIN threads : threads[t].positions = Positions(df, spec_in)
        /\ spec = spec_in

(* A single thread, or two that never overlap inside a rule evaluation,    *)
(* return the positions of a run alone and leave the rules as they were.   *)
SerialThreadsIndependent ==
    (pc = "threads" /\ threads[2] = Thread /\ threads[1].pc = "done")
    => /\ threads[1].positions = Positions(df, spec_in)
       /\ spec = spec_in

-----------------------------------------------------------------------------
(* Claims: the num_trades metric                                           *)

(* The FLAT->LONG transitions of a position timeline; the run starts FLAT. *)
Opened(pos) ==
    Cardinality({k \in 1..Len(pos) : pos[k] = 1 /\ (k = 1 \/ pos[k - 1] = 0)})

Measured == pc = "measured" /\ Len(returned) = 3

\* C36: the num_trades metric computed from the position timeline equals
\* the number of FLAT->LONG transitions made by run_backtest and the number
\* of trades returned by extract_trades for the same specification and
\* table, also when the position opens on the first bar.
C36_NumTradesCountsTrades ==
    Measured =>
        /\ returned[3].metrics.num_trades = Opened(returned[1].position)
        /\ returned[3].metrics.num_trades = Len(returned[2].trades)

(* The ledger has one trade per FLAT->LONG transition; num_trades agrees   *)
(* with both when bar 0 is FLAT and is one less when bar 0 is LONG.        *)
NumTradesAfterFirstBar ==
    Measured =>
        /\ Opened(returned[1].position) = Len(returned[2].trades)
        /\ returned[3].metrics.num_trades =
              Len(returned[2].trades) - returned[1].position[1]

(* In the pipeline add_features makes the moving averages of bar 0 equal,  *)
(* so bar 0 is FLAT and the metric agrees with the ledger.                 *)
NumTradesInPipeline ==
    (Started /\ state.backtest_results # None /\ state.metrics # None
        /\ state.trades # None)
    => Val(state.metrics).num_trades = Len(Val(state.trades))

-----------------------------------------------------------------------------
(* Claims: the dry run of the data validator                               *)

DryRunDone == pc = "done" /\ validation.fn = "validate_with_data"

NoEntriesWarned == Count(validation.result.warnings, MsgNoEntries) > 0

\* C37: for every specification and non-empty table, validate_with_data
\* returns the "unlikely to generate any entries" warning if and only if
\* run_backtest's position is 0 on every bar and extract_trades returns an
\* empty ledger for the same inputs.
C37_DryRunPredicts ==
    DryRunDone =>
        /\ NoEntriesWarned <=>
              /\ \A t \in DOMAIN returned[1].position : returned[1].position[t] = 0
              /\ returned[2].trades = << >>
        /\ (\A t \in DOMAIN returned[1].position : returned[1].position[t] = 0)
              <=> returned[2].trades = << >>

\* The warning was given for a sequential entry whose first rule holds on
\* some bar while the whole entry never does; the simulation stayed FLAT.
C37_Witness ==
    /\ DryRunDone
    /\ NoEntriesWarned
    /\ spec_in.entry_sequential
    /\ Len(spec_in.entry_rules) = 2
    /\ \E t \in 0..(Len(df) - 1) : EvaluateRule(Stripped(spec_in.entry_rules[1]), t, df)
    /\ returned[2].trades = << >>

-----------------------------------------------------------------------------
(* Claims: sequential entry against standard entry                         *)

(* The first entry rule has no temporal modifier and no later entry rule   *)
(* has duration_days.                                                      *)
PlainFirstNoLaterDuration(rules) ==
    /\ Len(rules) > 0
    /\ rules[1].lookahead_days = None
    /\ rules[1].duration_days = None
    /\ \A k \in 2..Len(rules) : rules[k].duration_days = None

(* The same specification with the other entry mode.                       *)
OtherMode(s) == [s EXCEPT !.entry_sequential = ~@]

OpensOf(pos) == {t \in 1..Len(pos) : pos[t] = 1 /\ (t = 1 \/ pos[t - 1] = 0)}
ClosesOf(pos) == {t \in 2..Len(pos) : pos[t] = 0 /\ pos[t - 1] = 1}

\* C38: when the first entry rule has no temporal modifier and no later
\* entry rule has duration_days, _evaluate_sequential_entry and
\* _evaluate_rules return the same value on every bar of every table, so
\* the position timeline and the bars of the trades are the same with
\* entry_sequential set and unset.
C38_SequentialEqualsStandard ==
    (pc \in {"run_backtest", "backtest_returned", "extract_trades", "done"}
        /\ PlainFirstNoLaterDuration(spec_in.entry_rules))
    => /\ \A t \in 0..(Len(df) - 1) :
            EvaluateSequentialEntry(spec_in.entry_rules, t, df)
                = EvaluateRules(spec_in.entry_rules, t, df)
       /\ (pc \in {"run_backtest", "extract_trades"} /\ spec_in.entry_sequential
              /\ call.stage = "entry_done")
            => entry_ok = EvaluateRules(spec_in.entry_rules, i, df)
       /\ pc = "done" =>
            LET other == Positions(df, OtherMode(spec_in))
            IN  /\ returned[1].position = other
                /\ Len(Ledger) = Cardinality(OpensOf(other))
                /\ \A k \in 1..Len(Ledger) :
                     LET open == CHOOSE t \in OpensOf(other) :
                                    Cardinality({u \in OpensOf(other) : u < t}) = k - 1
                         later == {u \in ClosesOf(other) : u > open}
                         close == IF later # {} THEN Least(later) ELSE Len(other)
                     IN  /\ Ledger[k].entry_date = DateStr(df, open - 1)
                         /\ Ledger[k].exit_date = Some(DateStr(df, close - 1))

\* A sequential run entered on a bar where the lagging rule does not hold
\* yet (it holds later inside its lookahead window).
C38_Witness ==
    /\ pc = "done"
    /\ spec_in.entry_sequential
    /\ PlainFirstNoLaterDuration(spec_in.entry_rules)
    /\ Len(spec_in.entry_rules) = 2
    /\ spec_in.entry_rules[2].lookahead_days # None
    /\ \E k \in 1..Len(Ledger) :
          ~EvaluateRule(Stripped(spec_in.entry_rules[2]),
                        BarOf(Ledger[k].entry_date), df)

(* With a modifier on the first rule the two modes differ on some table.   *)
ModesDifferOtherwise ==
    /\ pc = "done"
    /\ ~PlainFirstNoLaterDuration(spec_in.entry_rules)
    /\ returned[1].position # Positions(df, OtherMode(spec_in))

-----------------------------------------------------------------------------
(* Claims: the temporal modes ordered by strength                          *)

EvaluatorCalled == ev.fn \in {"_evaluate_crossover", "_evaluate_vol_filter"}

(* The rule of the recorded call, and its condition without modifiers on   *)
(* the bar of the call.                                                    *)
CalledRule == spec.entry_rules[ev.k]
Instantaneous == EvaluateRule(Stripped(CalledRule), ev.row_idx, df)

CalledNa ==
    IF CalledRule.type = "crossover"
    THEN CrossoverNa(CalledRule, Iloc(df, ev.row_idx))
    ELSE VolFilterNa(CalledRule, Iloc(df, ev.row_idx))

DurationOnly(rule) == rule.duration_days # None /\ rule.lookahead_days = None
LookaheadOnly(rule) == rule.lookahead_days # None /\ rule.duration_days = None

\* C39: for every modifier value _parse_rule and validate_spec accept, zero
\* and negative ones included, on every bar a rule with duration_days that
\* evaluates true has its unmodified condition true on that bar, and a rule
\* with lookahead_days evaluates true on every bar where its unmodified
\* condition is true.
C39_ModesOrdered ==
    EvaluatorCalled
    => /\ (DurationOnly(CalledRule) /\ ev.result) => Instantaneous
       /\ (LookaheadOnly(CalledRule) /\ Instantaneous) => ev.result

(* The order holds for the values with a bar to look at: duration_days of  *)
(* at least 1 and lookahead_days of at least 0.                            *)
ModesOrderedWithWindow ==
    EvaluatorCalled
    => /\ (DurationOnly(CalledRule) /\ Val(CalledRule.duration_days) >= 1 /\ ev.result)
              => Instantaneous
       /\ (LookaheadOnly(CalledRule) /\ Val(CalledRule.lookahead_days) >= 0
               /\ Instantaneous)
              => ev.result

(* Both halves fail: duration_days = 0 true on a bar with a missing value, *)
(* lookahead_days = -1 false on a bar where the condition holds.           *)
EmptyDurationTrue ==
    /\ EvaluatorCalled /\ DurationOnly(CalledRule)
    /\ Val(CalledRule.duration_days) = 0 /\ ev.result /\ ~Instantaneous
    /\ CalledNa

EmptyLookaheadFalse ==
    /\ EvaluatorCalled /\ LookaheadOnly(CalledRule)
    /\ Val(CalledRule.lookahead_days) = -1 /\ ~ev.result /\ Instantaneous

-----------------------------------------------------------------------------
(* Claims: how far ahead of a bar run_backtest reads                       *)

AllRules(s) == s.entry_rules \o s.exit_rules

DeclaredLookaheads(s) ==
    {Val(AllRules(s)[k].lookahead_days) :
        k \in {j \in DOMAIN AllRules(s) : AllRules(s)[j].lookahead_days # None}}

(* The largest lookahead_days any rule declares, 0 when none does.         *)
Lmax(s) ==
    IF DeclaredLookaheads(s) = {} THEN 0
    ELSE CHOOSE l \in DeclaredLookaheads(s) : \A o \in DeclaredLookaheads(s) : o <= l

(* Two tables of the same length with the same rows on bars 0..upto.       *)
AgreeUpTo(d1, d2, upto) ==
    /\ Len(d1) = Len(d2)
    /\ \A k \in 1..Len(d1) : (k - 1 <= upto) => d1[k] = d2[k]

SamePositionsUpTo(t) ==
    \A u \in 1..(t + 1) : returned[1].position[u] = returned[2].position[u]

BothRan ==
    /\ pc = "backtest_returned"
    /\ Len(returned) = 2
    /\ data # None

\* C40: with Lmax the largest lookahead_days declared by any rule (0 when
\* none), two tables of the same length that agree on bars 0..t+Lmax get
\* the same positions on bars 0..t from run_backtest; when no rule declares
\* lookahead_days the position of bar t does not depend on later bars.
C40_BoundedFuture ==
    BothRan
    => \A t \in 0..(Len(df) - 1) :
          AgreeUpTo(Val(data), df, t + Lmax(spec_in)) => SamePositionsUpTo(t)

(* The bound holds whenever no declared lookahead_days is negative, and    *)
(* for every specification once the bound is at least the bar itself.      *)
BoundedFutureNonNegative ==
    (BothRan /\ \A l \in DeclaredLookaheads(spec_in) : l >= 0)
    => \A t \in 0..(Len(df) - 1) :
          AgreeUpTo(Val(data), df, t + Lmax(spec_in)) => SamePositionsUpTo(t)

BoundedFutureFromBar ==
    BothRan
    => \A t \in 0..(Len(df) - 1) :
          AgreeUpTo(Val(data), df, t + Max(0, Lmax(spec_in))) => SamePositionsUpTo(t)

(* The bound is tight where it holds: tables that agree on bars 0..t and   *)
(* differ on bar t+1 get different positions on bar t under a lookahead.   *)
FutureBarRead ==
    /\ BothRan
    /\ Lmax(spec_in) = 1
    /\ \A l \in DeclaredLookaheads(spec_in) : l >= 0
    /\ \E t \in 0..(Len(df) - 2) :
          /\ AgreeUpTo(Val(data), df, t)
          /\ ~SamePositionsUpTo(t)

(* A specification whose only declared lookahead_days is -1: the tables    *)
(* agree on bars 0..t-1 and the positions differ on bar t.                 *)
NegativeBoundBroken ==
    /\ BothRan
    /\ Lmax(spec_in) = -1
    /\ \E t \in 0..(Len(df) - 1) :
          /\ AgreeUpTo(Val(data), df, t - 1)
          /\ ~SamePositionsUpTo(t)

=============================================================================
